---------------------------- MODULE Spec2Model ----------------------------
(***************************************************************************)
(* Reward-scoring core of NihongoDojo (src/nihongo_dojo/reward/*.py).      *)
(*                                                                         *)
(* Text.  A Python str is modelled as a sequence of one-character tokens.  *)
(* The four tag strings are atomic tokens ("<reasoning>", "</reasoning>",  *)
(* "<answer>", "</answer>"), and so are the tags of a custom instance and  *)
(* an end-of-sequence token; every other token stands for exactly one      *)
(* character.  Japanese characters are written by an ASCII name, one name  *)
(* per code point: hiragana by lowercase romaji ("ga" is U+304C), katakana *)
(* by uppercase romaji, kanji by "u" and the code point ("u65e5" is        *)
(* U+65E5); " ", "\n" and "ZSP" (U+3000) are the whitespace characters.    *)
(*                                                                         *)
(* Optional values.  Python's None is <<>> and a present value v is <<v>>. *)
(*                                                                         *)
(* Scores.  A float score s is the integer s * Unit, Unit a multiple of    *)
(* 10 and of every denominator the scorers can divide by, so that every    *)
(* score of the model is exact.                                            *)
(***************************************************************************)
EXTENDS Integers, Sequences, FiniteSets, TLC

VARIABLES
    fn,             \* name of the scorer that was called ("none" before)
    args,           \* the call: [task, prompts, completions, answer, responses]
    ret,            \* what the call returned: [raised, exc, scores]
    accuracy_stats, \* JapaneseTaskRewardFunctions.accuracy_stats
    config          \* the instance's constructor arguments: [reasoning_start,
                    \* reasoning_end, solution_start, solution_end, eos_token]

vars == <<fn, args, ret, accuracy_stats, config>>

---------------------------------------------------------------------------
(* Bounds of the model. *)

\* Largest number of completions in one call.
MaxBatch == 2

\* Largest denominator of a partial-credit division (the length of the
\* longer text, the number of listed particles or of ordered words).
MaxDen == 7

---------------------------------------------------------------------------
(* Generic helpers on sequences-as-strings. *)

None == <<>>
Some(v) == <<v>>
IsNone(m) == m = <<>>
Val(m) == m[1]

Min2(a, b) == IF a <= b THEN a ELSE b
Max2(a, b) == IF a >= b THEN a ELSE b

RECURSIVE Gcd(_, _)
Gcd(a, b) == IF b = 0 THEN a ELSE Gcd(b, a % b)

RECURSIVE LcmUpTo(_)
LcmUpTo(n) == IF n <= 1 THEN 1 ELSE (LcmUpTo(n - 1) * n) \div Gcd(LcmUpTo(n - 1), n)

\* One tenth of a point; a score of x.y points is Tenths(10x + y).
Unit == 10 * LcmUpTo(MaxDen)
Tenths(t) == t * (Unit \div 10)

\* s[i..j] as Python slices it (1-based, inclusive, empty when j < i).
Slice(s, i, j) == IF j < i THEN <<>> ELSE SubSeq(s, i, j)

\* pat occurs in s at position i.
OccursAt(s, pat, i) ==
    /\ i >= 1
    /\ i + Len(pat) - 1 <= Len(s)
    /\ \A k \in 1..Len(pat) : s[i + k - 1] = pat[k]

\* The four tags are single tokens of a text; every other token is one
\* character.  Chars(s) spells the tags out, so that lengths and substring
\* tests count characters as Python does.
IsTag(tok) ==
    tok \in {"<reasoning>", "</reasoning>", "<answer>", "</answer>",
             "<think>", "</think>", "<result>", "</result>", "<eos>"}

TagChars(tok) ==
    CASE tok = "<reasoning>" -> <<"<", "r", "e", "a", "s", "o", "n", "i", "n", "g", ">">>
      [] tok = "</reasoning>" ->
             <<"<", "/", "r", "e", "a", "s", "o", "n", "i", "n", "g", ">">>
      [] tok = "<answer>" -> <<"<", "a", "n", "s", "w", "e", "r", ">">>
      [] tok = "</answer>" -> <<"<", "/", "a", "n", "s", "w", "e", "r", ">">>
      [] tok = "<think>" -> <<"<", "t", "h", "i", "n", "k", ">">>
      [] tok = "</think>" -> <<"<", "/", "t", "h", "i", "n", "k", ">">>
      [] tok = "<result>" -> <<"<", "r", "e", "s", "u", "l", "t", ">">>
      [] tok = "</result>" -> <<"<", "/", "r", "e", "s", "u", "l", "t", ">">>
      [] tok = "<eos>" -> <<"<", "e", "o", "s", ">">>

RECURSIVE SpellOut(_)
SpellOut(s) ==
    IF Len(s) = 0 THEN <<>>
    ELSE (IF IsTag(s[1]) THEN TagChars(s[1]) ELSE <<s[1]>>) \o SpellOut(Tail(s))

Chars(s) == IF \A i \in 1..Len(s) : ~IsTag(s[i]) THEN s ELSE SpellOut(s)

\* Python's len(s) for strings.
PyLen(s) == Len(Chars(s))

\* Python's  pat in s  for strings.
Contains(s, pat) ==
    LET cs == Chars(s)
        cp == Chars(pat)
    IN  \E i \in 1..(Len(cs) + 1) : OccursAt(cs, cp, i)

\* Python's s.replace(pat, rep) for a non-empty pat: leftmost
\* non-overlapping occurrences, scanned left to right.
RECURSIVE Replace(_, _, _)
Replace(s, pat, rep) ==
    IF Len(s) = 0 THEN <<>>
    ELSE IF OccursAt(s, pat, 1)
         THEN rep \o Replace(Slice(s, Len(pat) + 1, Len(s)), pat, rep)
         ELSE <<s[1]>> \o Replace(Tail(s), pat, rep)

StartsWith(s, pat) == OccursAt(s, pat, 1)
EndsWith(s, pat) == Len(pat) <= Len(s) /\ OccursAt(s, pat, Len(s) - Len(pat) + 1)

\* Whitespace characters of the model: space, newline, ideographic space
\* (U+3000); str.strip() and the regex class \s take all three.
IsSpace(c) == c \in {" ", "\n", "ZSP"}

RECURSIVE LStrip(_)
LStrip(s) == IF Len(s) > 0 /\ IsSpace(s[1]) THEN LStrip(Tail(s)) ELSE s

RECURSIVE RStrip(_)
RStrip(s) ==
    IF Len(s) > 0 /\ IsSpace(s[Len(s)]) THEN RStrip(Slice(s, 1, Len(s) - 1)) ELSE s

\* Python's s.strip().
Strip(s) == RStrip(LStrip(s))

\* Python's s.split(): the maximal runs of non-whitespace characters.
RECURSIVE SplitFrom(_, _)
SplitFrom(s, cur) ==
    IF Len(s) = 0 THEN (IF cur = <<>> THEN <<>> ELSE <<cur>>)
    ELSE IF IsSpace(s[1])
         THEN (IF cur = <<>> THEN <<>> ELSE <<cur>>) \o SplitFrom(Tail(s), <<>>)
         ELSE SplitFrom(Tail(s), Append(cur, s[1]))

Split(s) == SplitFrom(s, <<>>)

\* The elements of a sequence as a set.
Range(s) == {s[i] : i \in 1..Len(s)}

---------------------------------------------------------------------------
(* The tagged-answer format and the Format Matcher. *)

\* The constructor's defaults; an empty eos_token is none configured.
DefaultConfig ==
    [reasoning_start |-> "<reasoning>", reasoning_end |-> "</reasoning>",
     solution_start |-> "<answer>", solution_end |-> "</answer>",
     eos_token |-> ""]

reasoning_start == config.reasoning_start
reasoning_end == config.reasoning_end
solution_start == config.solution_start
solution_end == config.solution_end
eos_token == config.eos_token

\* The regex's  [\s]{0,}(?:eos)?[\s]{0,}$  under re.MULTILINE: after the
\* answer-close marker at position e, some run of whitespace, with the
\* configured eos_token at most once in it, ends at the end of the text or
\* just before a newline.
TailMatches(text, e) ==
    \E k \in e..Len(text) :
        /\ \/ \A j \in (e + 1)..k : IsSpace(text[j])
           \/ /\ eos_token # ""
              /\ \E m \in (e + 1)..k :
                     /\ text[m] = eos_token
                     /\ \A j \in ((e + 1)..k) \ {m} : IsSpace(text[j])
        /\ (k = Len(text) \/ text[k + 1] = "\n")

\* (a, e) is a way the pattern can match: the answer-open marker at a follows
\* the first reasoning-close marker, the literal </answer> is at e, at least
\* one character lies between them (.+?), and the tail matches.
FirstReasoningEnd(text) ==
    IF \E i \in 1..Len(text) : text[i] = reasoning_end
    THEN CHOOSE i \in 1..Len(text) :
            text[i] = reasoning_end /\ \A j \in 1..(i - 1) : text[j] # reasoning_end
    ELSE 0

FormatCandidate(text, a, e) ==
    /\ FirstReasoningEnd(text) > 0
    /\ FirstReasoningEnd(text) < a
    /\ a + 1 < e
    /\ e <= Len(text)
    /\ text[a] = solution_start
    /\ text[e] = "</answer>"
    /\ TailMatches(text, e)

\* self.match_format.search(text): None, or group(1).  The lazy .*? takes the
\* first answer-open marker from which a match exists and the lazy (.+?) the
\* nearest answer-close marker that completes it.
match_format(text) ==
    LET As == {a \in 1..Len(text) : \E e \in 1..Len(text) : FormatCandidate(text, a, e)}
    IN  IF As = {} THEN None
        ELSE LET a == CHOOSE x \in As : \A y \in As : x <= y
                 Es == {e \in 1..Len(text) : FormatCandidate(text, a, e)}
                 e == CHOOSE x \in Es : \A y \in Es : x <= y
             IN  Some(Slice(text, a + 1, e - 1))

\* re.search(r'<answer>(.+?)</answer>', ans, re.DOTALL): group(1) or None.
answer_tag_search(ans) ==
    LET Ps == {p \in (1..Len(ans)) \X (1..Len(ans)) :
                  /\ ans[p[1]] = "<answer>"
                  /\ ans[p[2]] = "</answer>"
                  /\ p[1] + 1 < p[2]}
    IN  IF Ps = {} THEN None
        ELSE LET a == CHOOSE x \in {p[1] : p \in Ps} : \A p \in Ps : x <= p[1]
                 e == CHOOSE x \in {p[2] : p \in Ps} :
                         /\ <<a, x>> \in Ps
                         /\ \A p \in Ps : p[1] = a => x <= p[2]
             IN  Some(Slice(ans, a + 1, e - 1))

\* reasoning_search with (.+?) as the group: an empty reasoning block is
\* not found.
reasoning_search_nonempty(text) ==
    LET Ps == {p \in (1..Len(text)) \X (1..Len(text)) :
                  /\ text[p[1]] = reasoning_start
                  /\ text[p[2]] = reasoning_end
                  /\ p[1] + 1 < p[2]}
    IN  IF Ps = {} THEN None
        ELSE LET a == CHOOSE x \in {p[1] : p \in Ps} : \A p \in Ps : x <= p[1]
                 e == CHOOSE x \in {p[2] : p \in Ps} :
                         /\ <<a, x>> \in Ps
                         /\ \A p \in Ps : p[1] = a => x <= p[2]
             IN  Some(Slice(text, a + 1, e - 1))

\* re.search(rf"{reasoning_start}(.*?){reasoning_end}", text, re.DOTALL):
\* group(1) or None.
reasoning_search(text) ==
    LET Ps == {p \in (1..Len(text)) \X (1..Len(text)) :
                  /\ text[p[1]] = reasoning_start
                  /\ text[p[2]] = reasoning_end
                  /\ p[1] < p[2]}
    IN  IF Ps = {} THEN None
        ELSE LET a == CHOOSE x \in {p[1] : p \in Ps} : \A p \in Ps : x <= p[1]
                 e == CHOOSE x \in {p[2] : p \in Ps} :
                         /\ <<a, x>> \in Ps
                         /\ \A p \in Ps : p[1] = a => x <= p[2]
             IN  Some(Slice(text, a + 1, e - 1))

---------------------------------------------------------------------------
(* ast.literal_eval on the characters  [ ] ' ,  space and identifier       *)
(* characters: list displays, single- and triple-quoted strings, adjacent  *)
(* strings concatenated, a top-level comma making a tuple.  A bare         *)
(* identifier character, a subscript or any syntax error raises.           *)
(* A value is [t |-> "str" | "list" | "tuple", v |-> its items].           *)

PyStr(chars) == [t |-> "str", v |-> chars]
PyList(items) == [t |-> "list", v |-> items]
PyTuple(items) == [t |-> "tuple", v |-> items]

\* Python's == on these values.
RECURSIVE PyEq(_, _)
PyEq(x, y) ==
    /\ x.t = y.t
    /\ Len(x.v) = Len(y.v)
    /\ IF x.t = "str" THEN x.v = y.v
       ELSE \A i \in 1..Len(x.v) : PyEq(x.v[i], y.v[i])

ParseFail == [ok |-> FALSE, val |-> <<>>, next |-> 0, comma |-> FALSE]
ParseOk(val, next, comma) == [ok |-> TRUE, val |-> val, next |-> next, comma |-> comma]

\* The tokenizer skips blanks between tokens.
RECURSIVE SkipBlanks(_, _)
SkipBlanks(s, i) == IF i <= Len(s) /\ s[i] = " " THEN SkipBlanks(s, i + 1) ELSE i

Quote3 == <<"'", "'", "'">>

\* One string token starting at the quote s[i].
ParseStringToken(s, i) ==
    IF OccursAt(s, Quote3, i)
    THEN LET Js == {j \in (i + 3)..Len(s) : OccursAt(s, Quote3, j)}
         IN  IF Js = {} THEN ParseFail
             ELSE LET j == CHOOSE x \in Js : \A y \in Js : x <= y
                  IN  ParseOk(Slice(s, i + 3, j - 1), j + 3, FALSE)
    ELSE LET Js == {j \in (i + 1)..Len(s) : s[j] = "'"}
         IN  IF Js = {} THEN ParseFail
             ELSE LET j == CHOOSE x \in Js : \A y \in Js : x <= y
                  IN  ParseOk(Slice(s, i + 1, j - 1), j + 1, FALSE)

\* Adjacent string tokens are one string.
RECURSIVE ParseStrings(_, _, _)
ParseStrings(s, i, acc) ==
    LET r == ParseStringToken(s, i)
    IN  IF ~r.ok THEN ParseFail
        ELSE LET j == SkipBlanks(s, r.next)
             IN  IF j <= Len(s) /\ s[j] = "'"
                 THEN ParseStrings(s, j, acc \o r.val)
                 ELSE ParseOk(PyStr(acc \o r.val), r.next, FALSE)

\* The parser proper: an atom at position i (atom = TRUE, blanks already
\* skipped), or comma-separated atoms from position i (atom = FALSE): inside
\* a list display up to its closing bracket (top = FALSE), or at top level
\* up to the end of the text.
RECURSIVE Parse(_, _, _, _, _)
Parse(atom, s, i, acc, top) ==
    IF atom
    THEN IF i > Len(s) THEN ParseFail
         ELSE IF s[i] = "'" THEN ParseStrings(s, i, <<>>)
         ELSE IF s[i] = "["
              THEN LET j == SkipBlanks(s, i + 1)
                   IN  IF j <= Len(s) /\ s[j] = "]"
                       THEN ParseOk(PyList(<<>>), j + 1, FALSE)
                       ELSE LET r == Parse(FALSE, s, j, <<>>, FALSE)
                            IN  IF r.ok THEN ParseOk(PyList(r.val), r.next, FALSE)
                                ELSE ParseFail
         ELSE ParseFail
    ELSE LET r == Parse(TRUE, s, i, <<>>, FALSE)
         IN  IF ~r.ok THEN ParseFail
             ELSE LET j == SkipBlanks(s, r.next)
                      acc2 == Append(acc, r.val)
                      k == SkipBlanks(s, j + 1)
                  IN  IF j > Len(s)
                      THEN (IF top THEN ParseOk(acc2, j, Len(acc2) > 1)
                            ELSE ParseFail)
                      ELSE IF s[j] = "]" /\ ~top THEN ParseOk(acc2, j + 1, FALSE)
                      ELSE IF s[j] = ","
                           THEN IF top /\ k > Len(s) THEN ParseOk(acc2, k, TRUE)
                                ELSE IF ~top /\ k <= Len(s) /\ s[k] = "]"
                                     THEN ParseOk(acc2, k + 1, FALSE)
                                ELSE Parse(FALSE, s, k, acc2, top)
                      ELSE ParseFail

ParseItems(s, i, acc, top) == Parse(FALSE, s, i, acc, top)

\* ast.literal_eval(s): <<value>>, or None when it raises.
literal_eval(s) ==
    LET r == ParseItems(s, SkipBlanks(s, 1), <<>>, TRUE)
    IN  IF ~r.ok THEN None
        ELSE IF r.comma THEN Some(PyTuple(r.val))
        ELSE Some(r.val[1])

---------------------------------------------------------------------------
(* ParticleFillRewardFunctions: the particle-fill answer scorer.           *)
(* Characters: ga U+304C, wo U+3092, ni U+306B, de U+3067, he U+3078,      *)
(* to U+3068, no U+306E, ha U+306F, mo U+3082, ka U+304B, ra U+3089,       *)
(* ma U+307E, yo U+3088, ri U+308A, ya U+3084, na U+306A, do U+3069,       *)
(* te U+3066.                                                              *)

COMMON_PARTICLES ==
    { <<"ga">>, <<"wo">>, <<"ni">>, <<"de">>, <<"he">>, <<"to">>, <<"no">>,
      <<"ha">>, <<"mo">>, <<"ka", "ra">>, <<"ma", "de">>, <<"yo", "ri">>,
      <<"ya">>, <<"na", "do">>, <<"no", "de">>, <<"no", "ni">>, <<"te", "mo">>,
      <<"de", "mo">>, <<"te", "ha">>, <<"ni", "ha">>, <<"de", "ha">>,
      <<"he", "ha">> }

\* similar_particles: the keys of the dict and, per key, its list.
similar_particles_keys ==
    { <<"ga">>, <<"ha">>, <<"ni">>, <<"he">>, <<"de">>, <<"wo">>,
      <<"ka", "ra">>, <<"yo", "ri">> }

similar_particles(key) ==
    CASE key = <<"ga">> -> { <<"ha">> }
      [] key = <<"ha">> -> { <<"ga">> }
      [] key = <<"ni">> -> { <<"he">>, <<"de">> }
      [] key = <<"he">> -> { <<"ni">> }
      [] key = <<"de">> -> { <<"ni">> }
      [] key = <<"wo">> -> {}
      [] key = <<"ka", "ra">> -> { <<"yo", "ri">> }
      [] key = <<"yo", "ri">> -> { <<"ka", "ra">> }

\* A scorer that gives a particle of the reference's group the credit of any
\* other known particle.
_evaluate_single_particle_ungrouped(guess, ans) ==
    IF guess = ans THEN Tenths(20)
    ELSE IF guess \in COMMON_PARTICLES THEN Tenths(-5)
    ELSE Tenths(-20)

_evaluate_single_particle(guess, ans) ==
    IF guess = ans THEN Tenths(20)
    ELSE IF ans \in similar_particles_keys /\ guess \in similar_particles(ans)
         THEN Tenths(5)
    ELSE IF guess \in COMMON_PARTICLES THEN Tenths(-5)
    ELSE Tenths(-20)

\* Python's s.split(sep) for a one-character sep.
RECURSIVE SplitOnFrom(_, _, _)
SplitOnFrom(s, sep, cur) ==
    IF Len(s) = 0 THEN <<cur>>
    ELSE IF s[1] = sep THEN <<cur>> \o SplitOnFrom(Tail(s), sep, <<>>)
    ELSE SplitOnFrom(Tail(s), sep, Append(cur, s[1]))

SplitOn(s, sep) == SplitOnFrom(s, sep, <<>>)

IsBracketed(s) == StartsWith(s, <<"[">>) /\ EndsWith(s, <<"]">>)

\* guess_list of _evaluate_particle_list.
particle_guess_list(guess) ==
    IF IsBracketed(guess)
    THEN IF IsNone(literal_eval(guess)) THEN PyList(<<PyStr(guess)>>)
         ELSE Val(literal_eval(guess))
    ELSE LET parts == SplitOn(guess, ",")
         IN  PyList([i \in 1..Len(parts) |-> PyStr(Strip(parts[i]))])

\* _evaluate_particle_list dividing by the length of the reference list.
_evaluate_particle_list_by_reference(guess, ans) ==
    IF IsNone(literal_eval(ans)) THEN Tenths(-20)
    ELSE LET true_list == Val(literal_eval(ans))
             guess_list == particle_guess_list(guess)
             n == Min2(Len(guess_list.v), Len(true_list.v))
             correct_count ==
                 Cardinality({i \in 1..n : PyEq(guess_list.v[i], true_list.v[i])})
             total == Len(true_list.v)
         IN  IF PyEq(guess_list, true_list) THEN Tenths(20)
             ELSE IF correct_count = total THEN Tenths(20)
             ELSE IF correct_count > 0 THEN (Tenths(10) * correct_count) \div total
             ELSE Tenths(-10)

_evaluate_particle_list(guess, ans) ==
    IF IsNone(literal_eval(ans)) THEN Tenths(-20)
    ELSE LET true_list == Val(literal_eval(ans))
             guess_list == particle_guess_list(guess)
             n == Min2(Len(guess_list.v), Len(true_list.v))
             correct_count ==
                 Cardinality({i \in 1..n : PyEq(guess_list.v[i], true_list.v[i])})
             total == Max2(Len(guess_list.v), Len(true_list.v))
         IN  IF PyEq(guess_list, true_list) THEN Tenths(20)
             ELSE IF correct_count = total THEN Tenths(20)
             ELSE IF correct_count > 0 THEN (Tenths(10) * correct_count) \div total
             ELSE Tenths(-10)

\* The per-example choice of balanced_check_answer between the list and the
\* single evaluation; guess and true_answer are already stripped.
particle_score(guess, true_answer) ==
    IF IsBracketed(true_answer) THEN _evaluate_particle_list(guess, true_answer)
    ELSE _evaluate_single_particle(guess, true_answer)

---------------------------------------------------------------------------
(* The scorer calling conventions.  A scorer is called with               *)
(*   a = [prompts, completions, answer, responses]                         *)
(* each <<>> (None / not passed) or <<value>>.  prompts, completions and   *)
(* answer are named parameters; responses can only arrive in **kwargs.     *)
(* A call returns [raised, exc, scores].                                   *)

Returned(scores) == [raised |-> FALSE, exc |-> "", scores |-> scores]
Raised(exc) == [raised |-> TRUE, exc |-> exc, scores |-> <<>>]

\* prompts is not None and completions is not None
NewInterface(a) == ~IsNone(a.prompts) /\ ~IsNone(a.completions)

\* str(true_answer): the element of the answer list, "None" for None.
StrNone == <<"N", "o", "n", "e">>
StrOf(x) == IF IsNone(x) THEN StrNone ELSE Val(x)

\* '<answer>' in s
HasAnswerTag(s) == \E i \in 1..Len(s) : s[i] = "<answer>"

\* The loop that replaces every full solution of the list by the stripped
\* content of its answer block (an element without one is kept).
extracted_answers(lst) ==
    [i \in 1..Len(lst) |->
        IF IsNone(answer_tag_search(lst[i])) THEN lst[i]
        ELSE Strip(Val(answer_tag_search(lst[i])))]

\* if answer and len(answer) > 0 and isinstance(answer[0], str)
\*    and '<answer>' in answer[0]
FirstIsFullSolution(ans) ==
    ~IsNone(ans) /\ Len(Val(ans)) > 0 /\ HasAnswerTag(Val(ans)[1])

\* responses of the balanced_check_* functions.  In the old interface
\* kwargs.get('completions', []) is always []: completions is a named
\* parameter and never a key of kwargs.
balanced_responses(a) ==
    IF NewInterface(a) THEN Val(a.completions)
    ELSE IF ~IsNone(a.responses) THEN Val(a.responses)
    ELSE <<>>

\* The answer list the balanced_check_* loop zips with: unwrapped in the new
\* interface, [answer] * n when not a list, broadcast when it has one element.
\* Its elements are optional strings.
balanced_answers(a) ==
    LET n == Len(balanced_responses(a))
        ans == IF NewInterface(a) /\ FirstIsFullSolution(a.answer)
               THEN Some(extracted_answers(Val(a.answer)))
               ELSE a.answer
    IN  IF IsNone(ans) THEN [i \in 1..n |-> None]
        ELSE IF Len(Val(ans)) = 1 /\ n > 1 THEN [i \in 1..n |-> Some(Val(ans)[1])]
        ELSE [i \in 1..Len(Val(ans)) |-> Some(Val(ans)[i])]

\* responses of strict_format_check and of the quality functions:
\* completions in the new interface, kwargs.get('completions', []) otherwise.
plain_responses(a) == IF NewInterface(a) THEN Val(a.completions) ELSE <<>>

HasToken(text, tok) == \E i \in 1..Len(text) : text[i] = tok
FindToken(text, tok) ==
    CHOOSE i \in 1..Len(text) : text[i] = tok /\ \A j \in 1..(i - 1) : text[j] # tok

\* strict_format_score without the test of the order.
strict_format_score_unordered(text) ==
    LET missing == Cardinality({t \in {reasoning_start, reasoning_end,
                                      solution_start, solution_end} :
                                  ~HasToken(text, t)})
    IN  IF missing = 0 THEN Tenths(5) ELSE Tenths(-5) * missing

\* The strict format score of one text.
strict_format_score(text) ==
    LET missing == Cardinality({t \in {reasoning_start, reasoning_end,
                                      solution_start, solution_end} :
                                  ~HasToken(text, t)})
    IN  IF missing = 0
        THEN IF /\ FindToken(text, reasoning_start) < FindToken(text, reasoning_end)
                /\ FindToken(text, reasoning_end) < FindToken(text, solution_start)
                /\ FindToken(text, solution_start) < FindToken(text, solution_end)
             THEN Tenths(5)
             ELSE Tenths(-10)
        ELSE Tenths(-5) * missing

strict_format_check(a) ==
    LET rs == plain_responses(a)
    IN  Returned([i \in 1..Len(rs) |-> strict_format_score(rs[i])])

\* The texts for which an enhanced_*_quality function reads the reference:
\* those with a reasoning block and an extracted answer.
quality_needs_answer(text) ==
    ~IsNone(reasoning_search(text)) /\ ~IsNone(match_format(text))

quality_true_answer(ans, i) ==
    LET t == Val(ans)[i]
    IN  IF HasAnswerTag(t) /\ ~IsNone(answer_tag_search(t))
        THEN Strip(Val(answer_tag_search(t)))
        ELSE t

\* The particles whose usages the consistency score knows.
PARTICLE_USAGE_keys ==
    { <<"ga">>, <<"wo">>, <<"ni">>, <<"de">>, <<"he">>, <<"to">>, <<"no">>,
      <<"ha">>, <<"mo">>, <<"ka", "ra">>, <<"ma", "de">>, <<"yo", "ri">> }

PARTICLE_USAGE(key) ==
    CASE key = <<"ga">> -> { <<"u4e3b", "u8a9e">>, <<"u5bfe", "u8c61">> }
      [] key = <<"wo">> -> { <<"u76ee", "u7684", "u8a9e">>, <<"u5bfe", "u8c61">>,
             <<"u52d5", "u4f5c", "no", "u5bfe", "u8c61">> }
      [] key = <<"ni">> -> { <<"u5834", "u6240">>, <<"u65b9", "u5411">>,
             <<"u6642", "u9593">>, <<"u76f8", "u624b">>,
             <<"u57fa", "u6e96">>, <<"u7acb", "u5834">> }
      [] key = <<"de">> -> { <<"u5834", "u6240">>, <<"u624b", "u6bb5">>,
             <<"u7406", "u7531">>, <<"u9053", "u5177">> }
      [] key = <<"he">> -> { <<"u65b9", "u5411">>, <<"u76ee", "u7684", "u5730">> }
      [] key = <<"to">> -> { <<"u76f8", "u624b">>, <<"u4e26", "u5217">>,
             <<"u5f15", "u7528">> }
      [] key = <<"no">> -> { <<"u6240", "u6709">>, <<"u95a2", "u4fc2">>,
             <<"u8aac", "u660e">> }
      [] key = <<"ha">> -> { <<"u4e3b", "u984c">>, <<"u5bfe", "u6bd4">> }
      [] key = <<"mo">> -> { <<"u4e26", "u5217">>, <<"u8ffd", "u52a0">> }
      [] key = <<"ka", "ra">> -> { <<"u8d77", "u70b9">>, <<"u7406", "u7531">>,
             <<"u6750", "u6599">> }
      [] key = <<"ma", "de">> -> { <<"u7d42", "u70b9">>, <<"u7bc4", "u56f2">> }
      [] key = <<"yo", "ri">> -> { <<"u6bd4", "u8f03">>, <<"u8d77", "u70b9">> }

\* basic_terms, advanced_terms and usage_keywords of the particle
\* _evaluate_grammar_explanation.
particle_basic_terms ==
    { <<"u52a9", "u8a5e">>, <<"u4e3b", "u8a9e">>,
      <<"u76ee", "u7684", "u8a9e">>, <<"u5bfe", "u8c61">>,
      <<"u5834", "u6240">>, <<"u65b9", "u5411">> }

particle_advanced_terms ==
    { <<"u4e3b", "u984c">>, <<"u5bfe", "u6bd4">>, <<"u4e26", "u5217">>,
      <<"u624b", "u6bb5">>, <<"u8d77", "u70b9">>, <<"u7d42", "u70b9">>,
      <<"u7406", "u7531">>, <<"u6761", "u4ef6">>, <<"u9006", "u63a5">> }

particle_usage_keywords ==
    { <<"u8868", "su">>, <<"u4f7f", "ii", "ma", "su">>, <<"u793a", "su">>,
      <<"u8868", "u73fe">>, <<"u610f", "u5473">> }

\* sum(1 for term in terms if term in text), for a list without repeats
CountIn(terms, text) == Cardinality({t \in terms : Contains(text, t)})

\* particle_length_score with 0.3 for a length between 30 and 100.
particle_length_score_generous(length) ==
    IF 30 < length /\ length < 100 THEN Tenths(3)
    ELSE IF 100 <= length /\ length < 200 THEN Tenths(1)
    ELSE IF length >= 200 THEN Tenths(-1)
    ELSE Tenths(-2)

\* The length part shared by the explanation scores: (30, 100) -> +long1,
\* [100, 200) -> +long2, >= 200 -> long3, <= 30 -> short.
particle_length_score(length) ==
    IF 30 < length /\ length < 100 THEN Tenths(2)
    ELSE IF 100 <= length /\ length < 200 THEN Tenths(1)
    ELSE IF length >= 200 THEN Tenths(-1)
    ELSE Tenths(-2)

\* score before the final min(score, 1.0).
particle_evaluate_grammar_explanation_score(reasoning) ==
    LET basic_count == CountIn(particle_basic_terms, reasoning)
        advanced_count == CountIn(particle_advanced_terms, reasoning)
        particle_mentions ==
            Cardinality({p \in COMMON_PARTICLES :
                \/ Contains(reasoning, <<"lq">> \o p \o <<"rq">>)
                \/ Contains(reasoning, <<"'">> \o p \o <<"'">>)})
    IN
            (IF basic_count >= 2 THEN Tenths(3)
             ELSE IF basic_count >= 1 THEN Tenths(1) ELSE 0)
            + (IF advanced_count >= 1 THEN Tenths(2) ELSE 0)
            + (IF particle_mentions >= 2 THEN Tenths(2)
               ELSE IF particle_mentions >= 1 THEN Tenths(1) ELSE 0)
            + particle_length_score(PyLen(reasoning))
            + (IF \E k \in particle_usage_keywords : Contains(reasoning, k)
               THEN Tenths(1) ELSE 0)

\* return min(score, 1.0)
particle_evaluate_grammar_explanation(reasoning) ==
    Min2(particle_evaluate_grammar_explanation_score(reasoning), Tenths(10))

particle_evaluate_explanation_consistency(reasoning, extracted, expected) ==
    IF extracted = expected
    THEN IF expected \in PARTICLE_USAGE_keys
         THEN IF \E usage \in PARTICLE_USAGE(expected) : Contains(reasoning, usage)
              THEN Tenths(5)
              ELSE Tenths(2)
         ELSE Tenths(3)
    ELSE IF Contains(reasoning, extracted) THEN Tenths(-2) ELSE 0

---------------------------------------------------------------------------
(* ParticleFillRewardFunctions: the three scorers.                         *)

\* One score per pair of zip(extracted_responses, answer).
balanced_check_answer(a) ==
    LET rs == balanced_responses(a)
        as == balanced_answers(a)
        n == Min2(Len(rs), Len(as))
    IN  Returned([i \in 1..n |->
            IF IsNone(match_format(rs[i])) THEN Tenths(-30)
            ELSE particle_score(Strip(Val(match_format(rs[i]))),
                               Strip(StrOf(as[i])))])

particle_Explain(reasoning, question) ==
    particle_evaluate_grammar_explanation(reasoning)

particle_Consistency(reasoning, extracted, expected, question) ==
    particle_evaluate_explanation_consistency(reasoning, extracted, expected)

\* len(answer) is evaluated only after an answer was extracted from a text
\* with a reasoning block, and raises on None.
enhanced_particle_quality(a) ==
    LET rs == plain_responses(a)
        qs == IF NewInterface(a) THEN Val(a.prompts) ELSE << <<>> >>
    IN  IF IsNone(a.answer) /\ \E i \in 1..Len(rs) : quality_needs_answer(rs[i])
        THEN Raised("TypeError")
        ELSE Returned([i \in 1..Len(rs) |->
            IF IsNone(reasoning_search(rs[i])) THEN Tenths(-10)
            ELSE LET reasoning == Val(reasoning_search(rs[i]))
                     question == IF i <= Len(qs) THEN Some(qs[i]) ELSE None
                 IN  particle_Explain(reasoning, question)
                     + (IF ~IsNone(match_format(rs[i])) /\ i <= Len(Val(a.answer))
                        THEN particle_Consistency(reasoning,
                                 Strip(Val(match_format(rs[i]))),
                                 quality_true_answer(a.answer, i),
                                 question)
                        ELSE 0)])

---------------------------------------------------------------------------
(* KeigoRewardFunctions.                                                   *)

\* The base verbs of KEIGO_PAIRS, in the order of the dictionary.
KEIGO_PAIRS_keys ==
    << <<"u884c", "ku">>, <<"u6765", "ru">>, <<"ii", "ru">>,
       <<"su", "ru">>, <<"u8a00", "uu">>, <<"u898b", "ru">>,
       <<"u805e", "ku">>, <<"u98df", "be", "ru">>, <<"u98f2", "mu">>,
       <<"mo", "ra", "uu">>, <<"aa", "ge", "ru">>, <<"u77e5", "ru">>,
       <<"u601d", "uu">>, <<"u4f1a", "uu">>, <<"u8aad", "mu">>,
       <<"u66f8", "ku">>, <<"u5f85", "tu">>, <<"u5bdd", "ru">>,
       <<"u6b7b", "nu">> >>

\* KEIGO_PAIRS[base]: <<sonkeigo, kenjogo>>, each a '/'-separated string.
KEIGO_PAIRS(base) ==
    CASE base = <<"u884c", "ku">> ->
           << <<"ii", "ra", "xtu", "si", "xya", "ru", "/", "oo", "ii", "de", "ni", "na", "ru">>,
              <<"u53c2", "ru", "/", "u4f3a", "uu">> >>
      [] base = <<"u6765", "ru">> ->
           << <<"ii", "ra", "xtu", "si", "xya", "ru", "/", "oo", "ii", "de", "ni", "na", "ru", "/", "oo", "u898b", "ee", "ni", "na", "ru">>,
              <<"u53c2", "ru", "/", "u4f3a", "uu">> >>
      [] base = <<"ii", "ru">> ->
           << <<"ii", "ra", "xtu", "si", "xya", "ru", "/", "oo", "ii", "de", "ni", "na", "ru">>,
              <<"oo", "ru">> >>
      [] base = <<"su", "ru">> ->
           << <<"na", "sa", "ru", "/", "sa", "re", "ru">>,
              <<"ii", "ta", "su">> >>
      [] base = <<"u8a00", "uu">> ->
           << <<"oo", "xtu", "si", "xya", "ru">>,
              <<"u7533", "su", "/", "u7533", "si", "u4e0a", "ge", "ru">> >>
      [] base = <<"u898b", "ru">> ->
           << <<"go", "u89a7", "ni", "na", "ru">>,
              <<"u62dd", "u898b", "su", "ru">> >>
      [] base = <<"u805e", "ku">> ->
           << <<"oo", "u805e", "ki", "ni", "na", "ru">>,
              <<"u4f3a", "uu", "/", "u62dd", "u8074", "su", "ru">> >>
      [] base = <<"u98df", "be", "ru">> ->
           << <<"u53ec", "si", "u4e0a", "ga", "ru">>,
              <<"ii", "ta", "da", "ku">> >>
      [] base = <<"u98f2", "mu">> ->
           << <<"u53ec", "si", "u4e0a", "ga", "ru">>,
              <<"ii", "ta", "da", "ku">> >>
      [] base = <<"mo", "ra", "uu">> ->
           << <<"oo", "u53d7", "ke", "u53d6", "ri", "ni", "na", "ru">>,
              <<"ii", "ta", "da", "ku", "/", "u9802", "u6234", "su", "ru">> >>
      [] base = <<"aa", "ge", "ru">> ->
           << <<"ku", "da", "sa", "ru">>,
              <<"u5dee", "si", "u4e0a", "ge", "ru">> >>
      [] base = <<"u77e5", "ru">> ->
           << <<"go", "u5b58", "u77e5", "de", "aa", "ru">>,
              <<"u5b58", "zi", "ru", "/", "u5b58", "zi", "u4e0a", "ge", "ru">> >>
      [] base = <<"u601d", "uu">> ->
           << <<"oo", "u601d", "ii", "ni", "na", "ru">>,
              <<"u5b58", "zi", "ru">> >>
      [] base = <<"u4f1a", "uu">> ->
           << <<"oo", "u4f1a", "ii", "ni", "na", "ru">>,
              <<"oo", "u76ee", "ni", "ka", "ka", "ru">> >>
      [] base = <<"u8aad", "mu">> ->
           << <<"oo", "u8aad", "mi", "ni", "na", "ru">>,
              <<"u62dd", "u8aad", "su", "ru">> >>
      [] base = <<"u66f8", "ku">> ->
           << <<"oo", "u66f8", "ki", "ni", "na", "ru">>,
              <<"u66f8", "ka", "se", "te", "ii", "ta", "da", "ku">> >>
      [] base = <<"u5f85", "tu">> ->
           << <<"oo", "u5f85", "ti", "ni", "na", "ru">>,
              <<"oo", "u5f85", "ti", "su", "ru">> >>
      [] base = <<"u5bdd", "ru">> ->
           << <<"oo", "u4f11", "mi", "ni", "na", "ru">>,
              <<"u4f11", "ma", "se", "te", "ii", "ta", "da", "ku">> >>
      [] base = <<"u6b7b", "nu">> ->
           << <<"oo", "u4ea1", "ku", "na", "ri", "ni", "na", "ru">>,
              <<"(", "u4f7f", "u7528", "wo", "u907f", "ke", "ru", ")">> >>

\* POLITE_VARIATIONS as the set of its <<plain, polite>> items.
POLITE_VARIATIONS ==
    { <<<<"oo", "ru">>, <<"oo", "ri", "ma", "su">>>>,
      <<<<"ii", "ta", "su">>, <<"ii", "ta", "si", "ma", "su">>>>,
      <<<<"u7533", "su">>, <<"u7533", "si", "ma", "su">>>>,
      <<<<"u53c2", "ru">>, <<"u53c2", "ri", "ma", "su">>>>,
      <<<<"u4f3a", "uu">>, <<"u4f3a", "ii", "ma", "su">>>>,
      <<<<"ii", "ta", "da", "ku">>, <<"ii", "ta", "da", "ki", "ma", "su">>>>,
      <<<<"u5dee", "si", "u4e0a", "ge", "ru">>, <<"u5dee", "si", "u4e0a", "ge", "ma", "su">>>>,
      <<<<"u5b58", "zi", "ru">>, <<"u5b58", "zi", "ma", "su">>>>,
      <<<<"u62dd", "u898b", "su", "ru">>, <<"u62dd", "u898b", "si", "ma", "su">>>>,
      <<<<"u62dd", "u8aad", "su", "ru">>, <<"u62dd", "u8aad", "si", "ma", "su">>>>,
      <<<<"u62dd", "u8074", "su", "ru">>, <<"u62dd", "u8074", "si", "ma", "su">>>> }

keigo_common_stems ==
    { <<"ii", "ra", "xtu", "si", "xya">>, <<"oo", "xtu", "si", "xya">>,
      <<"na", "sa">>, <<"ku", "da", "sa">>,
      <<"u53ec", "si", "u4e0a", "ga">> }

keigo_keywords ==
    { <<"u5c0a", "u656c", "u8a9e">>, <<"u8b19", "u8b72", "u8a9e">>,
      <<"u4e01", "u5be7", "u8a9e">>, <<"u656c", "u8a9e">>,
      <<"u76f8", "u624b">>, <<"u81ea", "u5206">>, <<"u52d5", "u4f5c">>,
      <<"he", "ri", "ku", "da">>, <<"u656c", "u610f">> }

\* the options of a '/'-separated entry
keigo_options(entry) == SplitOn(entry, "/")
KeigoBases == Range(KEIGO_PAIRS_keys)
sonkeigo_options == [base \in KeigoBases |-> Range(keigo_options(KEIGO_PAIRS(base)[1]))]
kenjogo_options == [base \in KeigoBases |-> Range(keigo_options(KEIGO_PAIRS(base)[2]))]

_is_polite_variation(guess, answer) ==
    \/ \E pv \in POLITE_VARIATIONS :
          \/ guess = pv[2] /\ answer = pv[1]
          \/ guess = pv[1] /\ answer = pv[2]
    \/ Replace(guess, <<"de", "su">>, <<>>) = Replace(answer, <<"de", "su">>, <<>>)
    \/ Replace(guess, <<"ma", "su">>, <<>>) = Replace(answer, <<"ma", "su">>, <<>>)

_is_same_keigo_category(guess, answer) ==
    \E base \in KeigoBases :
        \/ guess \in sonkeigo_options[base] /\ answer \in sonkeigo_options[base]
        \/ guess \in kenjogo_options[base] /\ answer \in kenjogo_options[base]

_is_keigo_confusion(guess, answer) ==
    \E base \in KeigoBases :
        \/ answer \in sonkeigo_options[base] /\ guess \in kenjogo_options[base]
        \/ answer \in kenjogo_options[base] /\ guess \in sonkeigo_options[base]

\* The stem of the o- + verb + suru / ni naru pattern.
keigo_stem(s) == Replace(Replace(s, <<"su", "ru">>, <<>>), <<"ni", "na", "ru">>, <<>>)

_is_partially_correct(guess, answer) ==
    \/ /\ Contains(guess, <<"oo">>)
       /\ Contains(answer, <<"oo">>)
       /\ keigo_stem(guess) = keigo_stem(answer)
    \/ \E stem \in keigo_common_stems : Contains(guess, stem) /\ Contains(answer, stem)

_evaluate_keigo_answer(guess, answer) ==
    IF guess = answer THEN Tenths(30)
    ELSE IF _is_polite_variation(guess, answer) THEN Tenths(25)
    ELSE IF _is_same_keigo_category(guess, answer) THEN Tenths(20)
    ELSE IF _is_keigo_confusion(guess, answer) THEN Tenths(-10)
    ELSE IF _is_partially_correct(guess, answer) THEN Tenths(5)
    ELSE Tenths(-15)

\* One score per pair of zip(extracted_responses, answer).
balanced_check_keigo(a) ==
    LET rs == balanced_responses(a)
        as == balanced_answers(a)
        n == Min2(Len(rs), Len(as))
    IN  Returned([i \in 1..n |->
            IF IsNone(match_format(rs[i])) THEN Tenths(-30)
            ELSE _evaluate_keigo_answer(Strip(Val(match_format(rs[i]))),
                                       Strip(StrOf(as[i])))])

\* required_type is "sonkeigo" or "kenjogo".
_check_keigo_type(word, required_type) ==
    \/ \E base \in KeigoBases :
          IF required_type = "sonkeigo" THEN word \in sonkeigo_options[base]
          ELSE word \in kenjogo_options[base]
    \/ required_type = "sonkeigo" /\ Contains(word, <<"ni", "na", "ru">>)
    \/ /\ required_type = "kenjogo"
       /\ EndsWith(word, <<"su", "ru">>)
       /\ (StartsWith(word, <<"oo">>) \/ StartsWith(word, <<"go">>))

\* "sonkeigo" when the question names sonkeigo, else "kenjogo" when it names
\* kenjogo, else None.
keigo_required_type(question) ==
    IF Contains(question, <<"u5c0a", "u656c", "u8a9e">>) THEN Some("sonkeigo")
    ELSE IF Contains(question, <<"u8b19", "u8b72", "u8a9e">>) THEN Some("kenjogo")
    ELSE None

keigo_length_score(length) ==
    IF 30 < length /\ length < 150 THEN Tenths(2)
    ELSE IF 150 <= length /\ length < 250 THEN Tenths(1)
    ELSE IF length >= 250 THEN Tenths(-1)
    ELSE Tenths(-2)

\* score before the final min(score, 1.0).
_evaluate_keigo_explanation_score(reasoning, question) ==
    LET expected_type ==
            IF Contains(question, <<"u5c0a", "u656c", "u8a9e">>)
            THEN Some(<<"u5c0a", "u656c", "u8a9e">>)
            ELSE IF Contains(question, <<"u8b19", "u8b72", "u8a9e">>)
            THEN Some(<<"u8b19", "u8b72", "u8a9e">>)
            ELSE None
        keyword_count == CountIn(keigo_keywords, reasoning)
    IN
            (IF keyword_count >= 3 THEN Tenths(4)
             ELSE IF keyword_count >= 2 THEN Tenths(2)
             ELSE IF keyword_count >= 1 THEN Tenths(1) ELSE 0)
            + (IF ~IsNone(expected_type) /\ Contains(reasoning, Val(expected_type))
               THEN Tenths(2) ELSE 0)
            + (IF \/ Contains(reasoning, <<"no", "de">>)
                  \/ Contains(reasoning, <<"ta", "me">>)
                  \/ Contains(reasoning, <<"ka", "ra">>)
               THEN Tenths(1) ELSE 0)
            + keigo_length_score(PyLen(reasoning))

\* return min(score, 1.0)
_evaluate_keigo_explanation(reasoning, question) ==
    Min2(_evaluate_keigo_explanation_score(reasoning, question), Tenths(10))

keigo_evaluate_explanation_consistency(reasoning, extracted, expected) ==
    IF extracted = expected \/ _is_polite_variation(extracted, expected)
    THEN (IF Contains(reasoning, extracted) THEN Tenths(2) ELSE 0)
         + (IF \/ Contains(reasoning, <<"u5c0a", "u656c", "u8a9e">>)
               \/ Contains(reasoning, <<"u8b19", "u8b72", "u8a9e">>)
            THEN Tenths(1) ELSE 0)
    ELSE (IF /\ _is_keigo_confusion(extracted, expected)
             /\ Contains(reasoning, <<"u5c0a", "u656c", "u8a9e">>)
             /\ Contains(reasoning, <<"u8b19", "u8b72", "u8a9e">>)
          THEN Tenths(-3) ELSE 0)
         + (IF Contains(reasoning, extracted) THEN Tenths(-2) ELSE 0)

\* question = questions[i] if i < len(questions) else ""
keigo_Explain(reasoning, question) ==
    _evaluate_keigo_explanation(reasoning, IF IsNone(question) THEN <<>> ELSE Val(question))

keigo_Consistency(reasoning, extracted, expected, question) ==
    keigo_evaluate_explanation_consistency(reasoning, extracted, expected)

\* len(answer) is evaluated only after an answer was extracted from a text
\* with a reasoning block, and raises on None.
enhanced_keigo_quality(a) ==
    LET rs == plain_responses(a)
        qs == IF NewInterface(a) THEN Val(a.prompts) ELSE << <<>> >>
    IN  IF IsNone(a.answer) /\ \E i \in 1..Len(rs) : quality_needs_answer(rs[i])
        THEN Raised("TypeError")
        ELSE Returned([i \in 1..Len(rs) |->
            IF IsNone(reasoning_search(rs[i])) THEN Tenths(-10)
            ELSE LET reasoning == Val(reasoning_search(rs[i]))
                     question == IF i <= Len(qs) THEN Some(qs[i]) ELSE None
                 IN  keigo_Explain(reasoning, question)
                     + (IF ~IsNone(match_format(rs[i])) /\ i <= Len(Val(a.answer))
                        THEN keigo_Consistency(reasoning,
                                 Strip(Val(match_format(rs[i]))),
                                 quality_true_answer(a.answer, i),
                                 question)
                        ELSE 0)])

\* The answer list of check_keigo_type_accuracy: unwrapped whenever its first
\* element is a full solution, [None] * n when omitted, never broadcast.
keigo_type_answers(a) ==
    LET n == Len(plain_responses(a))
    IN  IF IsNone(a.answer) THEN [i \in 1..n |-> None]
        ELSE IF FirstIsFullSolution(a.answer)
        THEN [i \in 1..Len(Val(a.answer)) |-> Some(extracted_answers(Val(a.answer))[i])]
        ELSE [i \in 1..Len(Val(a.answer)) |-> Some(Val(a.answer)[i])]

check_keigo_type_accuracy(a) ==
    LET rs == plain_responses(a)
        qs == IF NewInterface(a) THEN Val(a.prompts) ELSE <<>>
        as == keigo_type_answers(a)
    IN  Returned([i \in 1..Len(rs) |->
            LET question == IF i <= Len(qs) THEN qs[i] ELSE <<>>
                required_type == keigo_required_type(question)
            IN  IF IsNone(match_format(rs[i])) \/ i > Len(as) \/ IsNone(required_type)
                THEN 0
                ELSE LET extracted_answer == Strip(Val(match_format(rs[i])))
                     IN  IF _check_keigo_type(extracted_answer, Val(required_type))
                         THEN Tenths(3)
                         ELSE IF /\ ~IsNone(as[i])
                                 /\ _is_keigo_confusion(extracted_answer, Val(as[i]))
                              THEN Tenths(-5)
                              ELSE Tenths(-2)])

---------------------------------------------------------------------------
(* CounterRewardFunctions.                                                 *)

COUNTER_CATEGORIES_keys ==
    {"animals_small", "animals_large", "birds", "people", "flat_objects", "bound_objects", "long_objects", "vehicles", "small_objects", "buildings", "floors", "letters", "pairs", "sets", "times", "order"}

COUNTER_CATEGORIES(category) ==
    CASE category = "animals_small" -> { <<"u5339">> }
      [] category = "animals_large" -> { <<"u982d">> }
      [] category = "birds" -> { <<"u7fbd">> }
      [] category = "people" -> { <<"u4eba">>, <<"u540d">> }
      [] category = "flat_objects" -> { <<"u679a">> }
      [] category = "bound_objects" -> { <<"u518a">>, <<"u5dfb">> }
      [] category = "long_objects" -> { <<"u672c">> }
      [] category = "vehicles" -> { <<"u53f0">> }
      [] category = "small_objects" -> { <<"u500b">>, <<"tu">> }
      [] category = "buildings" -> { <<"u8ed2">>, <<"u68df">>, <<"u6238">> }
      [] category = "floors" -> { <<"u968e">> }
      [] category = "letters" -> { <<"u901a">> }
      [] category = "pairs" -> { <<"u8db3">>, <<"u5bfe">> }
      [] category = "sets" -> { <<"u7d44">>, <<"SE", "XTU", "TO">> }
      [] category = "times" -> { <<"u56de">>, <<"u5ea6">> }
      [] category = "order" -> { <<"u756a">>, <<"u4f4d">> }

\* The characters of the numeral class [0-9 fullwidth 0-9 and the kanji
\* numerals one..ten, hundred, thousand, ten thousand].
NumeralChars ==
    {"0", "1", "2", "3", "4", "5", "6", "7", "8", "9", "fw0", "fw1", "fw2",
     "fw3", "fw4", "fw5", "fw6", "fw7", "fw8", "fw9", "u4e00", "u4e8c",
     "u4e09", "u56db", "u4e94", "u516d", "u4e03", "u516b", "u4e5d",
     "u5341", "u767e", "u5343", "u4e07"}

\* str.maketrans of _normalize_number: fullwidth digit -> ASCII digit.
fullwidth_to_ascii(c) ==
    CASE c = "fw0" -> "0"
      [] c = "fw1" -> "1"
      [] c = "fw2" -> "2"
      [] c = "fw3" -> "3"
      [] c = "fw4" -> "4"
      [] c = "fw5" -> "5"
      [] c = "fw6" -> "6"
      [] c = "fw7" -> "7"
      [] c = "fw8" -> "8"
      [] c = "fw9" -> "9"
      [] OTHER -> c

\* kanji_to_num of _normalize_number, in the order of the dictionary.
kanji_to_num ==
    << <<<<"u4e00">>, <<"1">>>>,
       <<<<"u4e8c">>, <<"2">>>>,
       <<<<"u4e09">>, <<"3">>>>,
       <<<<"u56db">>, <<"4">>>>,
       <<<<"u4e94">>, <<"5">>>>,
       <<<<"u516d">>, <<"6">>>>,
       <<<<"u4e03">>, <<"7">>>>,
       <<<<"u516b">>, <<"8">>>>,
       <<<<"u4e5d">>, <<"9">>>>,
       <<<<"u5341">>, <<"1", "0">>>> >>

counter_keywords ==
    { <<"u52a9", "u6570", "u8a5e">>, <<"u6570", "ee", "ru">>,
      <<"KA", "UU", "NN", "TA", "chouon">>, <<"u5358", "u4f4d">>,
      <<"u5339">>, <<"u7fbd">>, <<"u982d">>, <<"u4eba">>, <<"u500b">>,
      <<"tu">>, <<"u679a">>, <<"u518a">>, <<"u672c">>, <<"u53f0">>,
      <<"u52d5", "u7269">>, <<"u9ce5">>, <<"u4eba", "u9593">>, <<"u7269">>,
      <<"u5e73", "ta", "ii">>, <<"u9577", "ii">>, <<"u6a5f", "u68b0">> }

explanation_elements ==
    { <<"no", "de">>, <<"ta", "me">>, <<"ka", "ra">>, <<"ma", "su">>,
      <<"de", "su">>, <<"u4f7f", "ii", "ma", "su">>,
      <<"u6570", "ee", "ma", "su">>, <<"u9069", "u5207">>,
      <<"u6b63", "si", "ii">> }

category_keywords_keys ==
    {"animals_small", "animals_large", "birds", "people", "flat_objects",
     "vehicles"}

category_keywords(category) ==
    CASE category = "animals_small" -> { <<"u5c0f", "u52d5", "u7269">>,
      <<"u5c0f", "sa", "ii", "u52d5", "u7269">> }
      [] category = "animals_large" -> { <<"u5927", "u578b", "u52d5", "u7269">>,
      <<"u5927", "ki", "ii", "u52d5", "u7269">> }
      [] category = "birds" -> { <<"u9ce5">>, <<"u9ce5", "u985e">> }
      [] category = "people" -> { <<"u4eba">>, <<"u4eba", "u9593">>, <<"u4eba", "u7269">> }
      [] category = "flat_objects" -> { <<"u5e73", "ta", "ii">>, <<"u8584", "ii">>, <<"u5e73", "u9762">> }
      [] category = "vehicles" -> { <<"u4e57", "ri", "u7269">>, <<"u6a5f", "u68b0">>, <<"u8eca">> }

\* counter_to_category.get(counter, None)
counter_to_category(counter) ==
    IF \E category \in COUNTER_CATEGORIES_keys : counter \in COUNTER_CATEGORIES(category)
    THEN Some(CHOOSE category \in COUNTER_CATEGORIES_keys :
                  counter \in COUNTER_CATEGORIES(category))
    ELSE None

\* The length of the longest prefix of numeral characters.
RECURSIVE NumeralPrefixLen(_)
NumeralPrefixLen(text) ==
    IF Len(text) > 0 /\ text[1] \in NumeralChars
    THEN 1 + NumeralPrefixLen(Tail(text))
    ELSE 0

\* The end of the run of non-newline characters that starts at i.
RECURSIVE LineEnd(_, _)
LineEnd(text, i) ==
    IF i <= Len(text) /\ text[i] # "\n" THEN LineEnd(text, i + 1) ELSE i - 1

\* re.match(r'([numerals]+)(.+)', text): the numerals are taken greedily and
\* given back one at a time until (.+) has a character that is not a newline
\* to start on; (.+) then runs to the end of the line.  [num, counter], num
\* None when there is no match.
_extract_number_and_counter(text) ==
    LET m == NumeralPrefixLen(text)
        k == IF m >= 1 /\ m < Len(text) /\ text[m + 1] # "\n" THEN m
             ELSE IF m >= 2 THEN m - 1
             ELSE 0
    IN  IF k = 0 THEN [num |-> None, counter |-> text]
        ELSE [num |-> Some(Slice(text, 1, k)),
              counter |-> Slice(text, k + 1, LineEnd(text, k + 1))]

related_groups ==
    { {"animals_small", "animals_large", "birds"},
      {"flat_objects", "letters"},
      {"small_objects", "vehicles"},
      {"times", "order"} }

_are_related_categories(cat1, cat2) ==
    \E group \in related_groups : cat1 \in group /\ cat2 \in group

_evaluate_counter_answer(guess, answer) ==
    LET g == _extract_number_and_counter(guess)
        t == _extract_number_and_counter(answer)
        guess_category == counter_to_category(g.counter)
        answer_category == counter_to_category(t.counter)
    IN  IF guess = answer THEN Tenths(20)
        ELSE IF g.num # t.num THEN Tenths(-20)
        ELSE IF g.counter # t.counter
        THEN IF ~IsNone(guess_category) /\ ~IsNone(answer_category)
             THEN IF guess_category = answer_category THEN Tenths(2)
                  ELSE IF _are_related_categories(Val(guess_category), Val(answer_category))
                  THEN Tenths(-5)
                  ELSE Tenths(-10)
             ELSE Tenths(-10)
        ELSE Tenths(-15)

\* One score per pair of zip(extracted_responses, answer).
balanced_check_counter(a) ==
    LET rs == balanced_responses(a)
        as == balanced_answers(a)
        n == Min2(Len(rs), Len(as))
    IN  Returned([i \in 1..n |->
            IF IsNone(match_format(rs[i])) THEN Tenths(-30)
            ELSE _evaluate_counter_answer(Strip(Val(match_format(rs[i]))),
                                         Strip(StrOf(as[i])))])

counter_length_score(length) ==
    IF 30 < length /\ length < 150 THEN Tenths(2)
    ELSE IF 150 <= length /\ length < 250 THEN Tenths(1)
    ELSE IF length >= 250 THEN Tenths(-1)
    ELSE Tenths(-2)

\* score before the final min(score, 1.0).
_evaluate_counter_explanation_score(reasoning) ==
    LET keyword_count == CountIn(counter_keywords, reasoning)
        element_count == CountIn(explanation_elements, reasoning)
    IN
            (IF keyword_count >= 3 THEN Tenths(4)
             ELSE IF keyword_count >= 2 THEN Tenths(2)
             ELSE IF keyword_count >= 1 THEN Tenths(1) ELSE 0)
            + (IF element_count >= 2 THEN Tenths(2)
               ELSE IF element_count >= 1 THEN Tenths(1) ELSE 0)
            + counter_length_score(PyLen(reasoning))

\* return min(score, 1.0)
_evaluate_counter_explanation(reasoning) ==
    Min2(_evaluate_counter_explanation_score(reasoning), Tenths(10))

counter_evaluate_explanation_consistency(reasoning, extracted, expected) ==
    IF extracted = expected
    THEN LET counter == _extract_number_and_counter(expected).counter
             category == counter_to_category(counter)
         IN  (IF counter # <<>> /\ Contains(reasoning, counter) THEN Tenths(2) ELSE 0)
             + (IF /\ ~IsNone(category)
                   /\ Val(category) \in category_keywords_keys
                   /\ \E keyword \in category_keywords(Val(category)) :
                          Contains(reasoning, keyword)
                THEN Tenths(1) ELSE 0)
    ELSE IF Contains(reasoning, extracted) THEN Tenths(-2) ELSE 0

counter_Explain(reasoning, question) == _evaluate_counter_explanation(reasoning)

counter_Consistency(reasoning, extracted, expected, question) ==
    counter_evaluate_explanation_consistency(reasoning, extracted, expected)

\* len(answer) is evaluated only after an answer was extracted from a text
\* with a reasoning block, and raises on None.
enhanced_counter_quality(a) ==
    LET rs == plain_responses(a)
        qs == IF NewInterface(a) THEN Val(a.prompts) ELSE << <<>> >>
    IN  IF IsNone(a.answer) /\ \E i \in 1..Len(rs) : quality_needs_answer(rs[i])
        THEN Raised("TypeError")
        ELSE Returned([i \in 1..Len(rs) |->
            IF IsNone(reasoning_search(rs[i])) THEN Tenths(-10)
            ELSE LET reasoning == Val(reasoning_search(rs[i]))
                     question == IF i <= Len(qs) THEN Some(qs[i]) ELSE None
                 IN  counter_Explain(reasoning, question)
                     + (IF ~IsNone(match_format(rs[i])) /\ i <= Len(Val(a.answer))
                        THEN counter_Consistency(reasoning,
                                 Strip(Val(match_format(rs[i]))),
                                 quality_true_answer(a.answer, i),
                                 question)
                        ELSE 0)])

\* s.replace(k, v) for every item of kanji_to_num from the i-th on.
RECURSIVE ReplaceKanjiFrom(_, _)
ReplaceKanjiFrom(s, i) ==
    IF i > Len(kanji_to_num) THEN s
    ELSE ReplaceKanjiFrom(Replace(s, kanji_to_num[i][1], kanji_to_num[i][2]), i + 1)

_normalize_number(num_str) ==
    ReplaceKanjiFrom([i \in 1..Len(num_str) |-> fullwidth_to_ascii(num_str[i])], 1)

\* The answer list of check_number_accuracy: unwrapped whenever its first
\* element is a full solution, [None] * n when omitted, never broadcast.
number_answers(a) ==
    LET n == Len(plain_responses(a))
    IN  IF IsNone(a.answer) THEN [i \in 1..n |-> None]
        ELSE IF FirstIsFullSolution(a.answer)
        THEN [i \in 1..Len(Val(a.answer)) |-> Some(extracted_answers(Val(a.answer))[i])]
        ELSE [i \in 1..Len(Val(a.answer)) |-> Some(Val(a.answer)[i])]

\* re.match on a reference that is None raises TypeError.
check_number_accuracy(a) ==
    LET rs == plain_responses(a)
        as == number_answers(a)
    IN  IF \E i \in 1..Len(rs) :
              ~IsNone(match_format(rs[i])) /\ i <= Len(as) /\ IsNone(as[i])
        THEN Raised("TypeError")
        ELSE Returned([i \in 1..Len(rs) |->
            IF IsNone(match_format(rs[i])) \/ i > Len(as) THEN 0
            ELSE LET guess_num == _extract_number_and_counter(
                                      Strip(Val(match_format(rs[i])))).num
                     answer_num == _extract_number_and_counter(Val(as[i])).num
                 IN  IF IsNone(guess_num) \/ IsNone(answer_num) THEN 0
                     ELSE IF _normalize_number(Val(guess_num)) = _normalize_number(Val(answer_num))
                     THEN Tenths(3)
                     ELSE Tenths(-5)])

---------------------------------------------------------------------------
(* KanjiRewardFunctions.                                                   *)

\* COMMON_MISTAKES: the keys in the order of the dictionary, and the
\* readings of each key.
COMMON_MISTAKES_keys ==
    << <<"u7d05">>, <<"u5341">>, <<"u53cd">>, <<"u90fd">>, <<"u7559">>,
       <<"u5f35">>, <<"u5e38">> >>

COMMON_MISTAKES(kanji) ==
    CASE kanji = <<"u7d05">> -> { <<"ku", "re", "na", "ii">>, <<"be", "ni">>, <<"ko", "uu">> }
      [] kanji = <<"u5341">> -> { <<"zi", "xyu", "uu">>, <<"zi", "xtu">>,
             <<"zi", "xyu", "xtu">>, <<"to", "oo">> }
      [] kanji = <<"u53cd">> -> { <<"ha", "nn">>, <<"ta", "nn">>, <<"he", "nn">> }
      [] kanji = <<"u90fd">> -> { <<"to">>, <<"tu">> }
      [] kanji = <<"u7559">> -> { <<"to">>, <<"ru">>, <<"ri", "xyu", "uu">> }
      [] kanji = <<"u5f35">> -> { <<"ha">>, <<"ti", "xyo", "uu">> }
      [] kanji = <<"u5e38">> -> { <<"to", "ko">>, <<"zi", "xyo", "uu">> }

SIMILAR_KANJI_keys ==
    { <<"u65e5">>, <<"u4eba">>, <<"u571f">>, <<"u6211">>, <<"u5ddd">> }

SIMILAR_KANJI(kanji) ==
    CASE kanji = <<"u65e5">> -> { <<"u76ee">>, <<"u767d">>, <<"u65e7">> }
      [] kanji = <<"u4eba">> -> { <<"u5165">>, <<"u516b">> }
      [] kanji = <<"u571f">> -> { <<"u58eb">>, <<"u5de5">> }
      [] kanji = <<"u6211">> -> { <<"u627e">>, <<"u6212">> }
      [] kanji = <<"u5ddd">> -> { <<"u5dde">>, <<"u9806">> }

common_radicals ==
    { <<"u6c35">>, <<"u4ebb">>, <<"u6728">>, <<"u706b">>, <<"u571f">>,
      <<"u91d1">>, <<"u6c34">>, <<"u65e5">>, <<"u6708">>, <<"u2ebe">> }

semantic_groups ==
    { { <<"u5ddd">>, <<"u6cb3">>, <<"u6c5f">> },
      { <<"u5c71">>, <<"u5cb3">>, <<"u5cf0">> },
      { <<"u6728">>, <<"u6a39">>, <<"u6797">>, <<"u68ee">> },
      { <<"u65e5">>, <<"u967d">>, <<"u592a", "u967d">> },
      { <<"u6708">>, <<"u6708", "u5149">>, <<"u6708", "u591c">> },
      { <<"u706b">>, <<"u708e">>, <<"u7114">> },
      { <<"u6c34">>, <<"u6c37">>, <<"u6e6f">> } }

\* The hiragana letters: the characters of the model's alphabet whose
\* Unicode name starts with HIRAGANA.
HiraganaChars ==
    {"xa", "aa", "xi", "ii", "xu", "uu", "xe", "ee", "xo", "oo", "ka",
     "ga", "ki", "gi", "ku", "gu", "ke", "ge", "ko", "go", "sa", "za",
     "si", "zi", "su", "zu", "se", "ze", "so", "zo", "ta", "da", "ti",
     "di", "xtu", "tu", "du", "te", "de", "to", "do", "na", "ni", "nu",
     "ne", "no", "ha", "ba", "pa", "hi", "bi", "pi", "hu", "bu", "pu",
     "he", "be", "pe", "ho", "bo", "po", "ma", "mi", "mu", "me", "mo",
     "xya", "ya", "xyu", "yu", "xyo", "yo", "ra", "ri", "ru", "re", "ro",
     "xwa", "wa", "wi", "we", "wo", "nn", "vu", "xka", "xke"}

\* The katakana letters and the long vowel mark ("chouon"): the characters
\* of the model's alphabet whose Unicode name starts with KATAKANA.
KatakanaChars ==
    {"XA", "AA", "XI", "II", "XU", "UU", "XE", "EE", "XO", "OO", "KA",
     "GA", "KI", "GI", "KU", "GU", "KE", "GE", "KO", "GO", "SA", "ZA",
     "SI", "ZI", "SU", "ZU", "SE", "ZE", "SO", "ZO", "TA", "DA", "TI",
     "DI", "XTU", "TU", "DU", "TE", "DE", "TO", "DO", "NA", "NI", "NU",
     "NE", "NO", "HA", "BA", "PA", "HI", "BI", "PI", "HU", "BU", "PU",
     "HE", "BE", "PE", "HO", "BO", "PO", "MA", "MI", "MU", "ME", "MO",
     "XYA", "YA", "XYU", "YU", "XYO", "YO", "RA", "RI", "RU", "RE", "RO",
     "XWA", "WA", "WI", "WE", "WO", "NN", "VU", "XKA", "XKE", "VA", "VI",
     "VE", "VO", "chouon"}

\* dakuten_map of _remove_dakuten.
dakuten_map(c) ==
    CASE c = "ga" -> "ka"
      [] c = "gi" -> "ki"
      [] c = "gu" -> "ku"
      [] c = "ge" -> "ke"
      [] c = "go" -> "ko"
      [] c = "za" -> "sa"
      [] c = "zi" -> "si"
      [] c = "zu" -> "su"
      [] c = "ze" -> "se"
      [] c = "zo" -> "so"
      [] c = "da" -> "ta"
      [] c = "di" -> "ti"
      [] c = "du" -> "tu"
      [] c = "de" -> "te"
      [] c = "do" -> "to"
      [] c = "ba" -> "ha"
      [] c = "bi" -> "hi"
      [] c = "bu" -> "hu"
      [] c = "be" -> "he"
      [] c = "bo" -> "ho"
      [] c = "pa" -> "ha"
      [] c = "pi" -> "hi"
      [] c = "pu" -> "hu"
      [] c = "pe" -> "he"
      [] c = "po" -> "ho"
      [] OTHER -> c

\* unicodedata.normalize('NFKC', c) for one character of the model's
\* alphabet: fullwidth digits, the ideographic space and the fullwidth
\* tilde have compatibility mappings; kana, kanji, ASCII and the
\* punctuation of the model are left unchanged.  The alphabet has no
\* combining marks, so a string is normalized character by character.
nfkc_char(c) ==
    CASE c = "fw0" -> "0"
      [] c = "fw1" -> "1"
      [] c = "fw2" -> "2"
      [] c = "fw3" -> "3"
      [] c = "fw4" -> "4"
      [] c = "fw5" -> "5"
      [] c = "fw6" -> "6"
      [] c = "fw7" -> "7"
      [] c = "fw8" -> "8"
      [] c = "fw9" -> "9"
      [] c = "ZSP" -> " "
      [] c = "fwtilde" -> "~"
      [] OTHER -> c

learning_keywords ==
    { <<"u5e74", "u751f">>, <<"u7fd2", "uu">>, <<"u5b66", "u5e74">>,
      <<"u5c0f", "u5b66">>, <<"u4e2d", "u5b66">>,
      <<"u97f3", "u8aad", "mi">>, <<"u8a13", "u8aad", "mi">>,
      <<"oo", "nn", "yo", "mi">>, <<"ku", "nn", "yo", "mi">>,
      <<"u610f", "u5473">>, <<"u90e8", "u9996">>, <<"u753b", "u6570">>,
      <<"u66f8", "ki", "u9806">> }

kanji_explanation_elements ==
    { <<"ko", "re", "ha">>, <<"ko", "no", "u6f22", "u5b57", "ha">>,
      <<"to", "ii", "uu", "u6f22", "u5b57">>,
      <<"u8aad", "mi", "u65b9", "ha">>,
      <<"to", "u8aad", "mi", "ma", "su">>,
      <<"to", "ii", "uu", "u610f", "u5473">>, <<"na", "do", "de", "su">>,
      <<"wo", "u8868", "si", "ma", "su">> }

\* grade_data of check_grade_accuracy: the kanji listed for grades 1..6.
grade_data ==
    << { <<"u4e00">>, <<"u4e8c">>, <<"u4e09">>, <<"u56db">>, <<"u4e94">>,
         <<"u516d">>, <<"u4e03">>, <<"u516b">>, <<"u4e5d">>, <<"u5341">>,
         <<"u65e5">>, <<"u6708">>, <<"u706b">>, <<"u6c34">>, <<"u6728">>,
         <<"u91d1">>, <<"u571f">> },
       { <<"u56fd">>, <<"u8a9e">>, <<"u7b97">>, <<"u6570">>, <<"u7406">>,
         <<"u79d1">>, <<"u793e">>, <<"u4f1a">>, <<"u97f3">>, <<"u697d">>,
         <<"u56f3">>, <<"u5de5">>, <<"u4f53">>, <<"u80b2">>, <<"u5bb6">>,
         <<"u5ead">> },
       { <<"u533b">>, <<"u8005">>, <<"u5b66">>, <<"u6821">>, <<"u5148">>,
         <<"u751f">>, <<"u53cb">>, <<"u9054">>, <<"u5144">>, <<"u5f1f">>,
         <<"u59c9">>, <<"u59b9">>, <<"u7236">>, <<"u6bcd">>, <<"u7956">> },
       { <<"u82f1">>, <<"u8a9e">>, <<"u6b74">>, <<"u53f2">>, <<"u5730">>,
         <<"u7406">>, <<"u653f">>, <<"u6cbb">>, <<"u7d4c">>, <<"u6e08">>,
         <<"u6587">>, <<"u5316">>, <<"u82b8">>, <<"u8853">>, <<"u6280">> },
       { <<"u60c5">>, <<"u5831">>, <<"u74b0">>, <<"u5883">>, <<"u56fd">>,
         <<"u969b">>, <<"u5e73">>, <<"u548c">>, <<"u6c11">>, <<"u4e3b">>,
         <<"u81ea">>, <<"u7531">>, <<"u6a29">>, <<"u5229">>, <<"u7fa9">>,
         <<"u52d9">> },
       { <<"u61b2">>, <<"u6cd5">>, <<"u88c1">>, <<"u5224">>, <<"u8b66">>,
         <<"u5bdf">>, <<"u9632">>, <<"u885b">>, <<"u5916">>, <<"u4ea4">>,
         <<"u8cbf">>, <<"u6613">>, <<"u7523">>, <<"u696d">>, <<"u5546">> } >>

\* The characters \d matches in the model's alphabet, with int(c).
digit_value(c) ==
    CASE c = "0" -> 0
      [] c = "1" -> 1
      [] c = "2" -> 2
      [] c = "3" -> 3
      [] c = "4" -> 4
      [] c = "5" -> 5
      [] c = "6" -> 6
      [] c = "7" -> 7
      [] c = "8" -> 8
      [] c = "9" -> 9
      [] c = "fw0" -> 0
      [] c = "fw1" -> 1
      [] c = "fw2" -> 2
      [] c = "fw3" -> 3
      [] c = "fw4" -> 4
      [] c = "fw5" -> 5
      [] c = "fw6" -> 6
      [] c = "fw7" -> 7
      [] c = "fw8" -> 8
      [] c = "fw9" -> 9

DigitChars ==
    {"0", "1", "2", "3", "4", "5", "6", "7", "8", "9", "fw0", "fw1", "fw2",
     "fw3", "fw4", "fw5", "fw6", "fw7", "fw8", "fw9"}

\* [a-zA-Z]
AsciiLetters ==
    {"a", "b", "c", "d", "e", "f", "g", "h", "i", "j", "k", "l", "m", "n",
     "o", "p", "q", "r", "s", "t", "u", "v", "w", "x", "y", "z", "A", "B",
     "C", "D", "E", "F", "G", "H", "I", "J", "K", "L", "M", "N", "O", "P",
     "Q", "R", "S", "T", "U", "V", "W", "X", "Y", "Z"}

\* unicodedata.normalize('NFKC', s)
NFKC(s) == [i \in 1..Len(s) |-> nfkc_char(s[i])]

\* all(name(c) starts with HIRAGANA or KATAKANA, or c is the long vowel mark)
_is_kana(text) ==
    \A i \in 1..Len(text) : text[i] \in HiraganaChars \cup KatakanaChars

\* _remove_dakuten turning a half-voiced kana into the voiced one.
_remove_dakuten_half_to_voiced(text) ==
    [i \in 1..Len(text) |->
        CASE text[i] = "pa" -> "ba"
          [] text[i] = "pi" -> "bi"
          [] text[i] = "pu" -> "bu"
          [] text[i] = "pe" -> "be"
          [] text[i] = "po" -> "bo"
          [] OTHER -> dakuten_map(text[i])]

_remove_dakuten(text) == [i \in 1..Len(text) |-> dakuten_map(text[i])]

\* The small tsu, ya, yu, yo replaced by the large ones.
kanji_large_kana(s) ==
    Replace(Replace(Replace(Replace(s, <<"xtu">>, <<"tu">>), <<"xya">>, <<"ya">>),
                    <<"xyu">>, <<"yu">>), <<"xyo">>, <<"yo">>)

_is_reading_partially_correct(guess, answer) ==
    /\ _is_kana(guess)
    /\ _is_kana(answer)
    /\ \/ kanji_large_kana(guess) = kanji_large_kana(answer)
       \/ _remove_dakuten(guess) = _remove_dakuten(answer)
       \/ Replace(guess, <<"uu">>, <<"chouon">>) = answer
       \/ Replace(answer, <<"uu">>, <<"chouon">>) = guess

\* _is_similar_kanji looking the pair up from the reference only.
_is_similar_kanji_one_way(guess, answer) ==
    \/ \E kanji \in SIMILAR_KANJI_keys :
          answer = kanji /\ guess \in SIMILAR_KANJI(kanji)
    \/ \E radical \in common_radicals : Contains(guess, radical) /\ Contains(answer, radical)

_is_similar_kanji(guess, answer) ==
    \/ \E kanji \in SIMILAR_KANJI_keys :
          \/ answer = kanji /\ guess \in SIMILAR_KANJI(kanji)
          \/ guess = kanji /\ answer \in SIMILAR_KANJI(kanji)
    \/ \E radical \in common_radicals : Contains(guess, radical) /\ Contains(answer, radical)

\* The loop returns at the first key that is the answer or the guess.
_is_similar_sound(guess, answer) ==
    LET hits == {i \in 1..Len(COMMON_MISTAKES_keys) :
                    answer = COMMON_MISTAKES_keys[i] \/ guess = COMMON_MISTAKES_keys[i]}
    IN  IF hits = {} THEN FALSE
        ELSE LET i == CHOOSE x \in hits : \A y \in hits : x <= y
                 readings == COMMON_MISTAKES(COMMON_MISTAKES_keys[i])
             IN  guess \in readings \/ answer \in readings

_is_semantically_related(guess, answer) ==
    \E group \in semantic_groups : guess \in group /\ answer \in group

\* sum(1 for g, a in zip(guess, answer) if g == a)
common_chars(guess, answer) ==
    LET g == Chars(guess)
        a == Chars(answer)
    IN  Cardinality({i \in 1..Min2(Len(g), Len(a)) : g[i] = a[i]})

_evaluate_kanji_answer(guess, answer) ==
    IF guess = answer THEN Tenths(20)
    ELSE IF NFKC(guess) = NFKC(answer) THEN Tenths(18)
    ELSE IF _is_reading_partially_correct(guess, answer) THEN Tenths(8)
    ELSE IF _is_similar_kanji(guess, answer) THEN Tenths(3)
    ELSE IF _is_similar_sound(guess, answer) THEN Tenths(2)
    ELSE IF PyLen(guess) = PyLen(answer) /\ common_chars(guess, answer) > 0
    THEN (Tenths(5) * common_chars(guess, answer)) \div PyLen(answer)
    ELSE IF _is_semantically_related(guess, answer) THEN Tenths(1)
    ELSE Tenths(-15)

\* One score per pair of zip(extracted_responses, answer).
balanced_check_kanji_answer(a) ==
    LET rs == balanced_responses(a)
        as == balanced_answers(a)
        n == Min2(Len(rs), Len(as))
    IN  Returned([i \in 1..n |->
            IF IsNone(match_format(rs[i])) THEN Tenths(-30)
            ELSE _evaluate_kanji_answer(Strip(Val(match_format(rs[i]))),
                                       Strip(StrOf(as[i])))])

\* re.search of  before (\d) after : the digits at the leftmost matches.
DigitMatches(text, before, after) ==
    {i \in 1..Len(text) :
        /\ OccursAt(text, before, i)
        /\ i + Len(before) <= Len(text)
        /\ text[i + Len(before)] \in DigitChars
        /\ OccursAt(text, after, i + Len(before) + 1)}

\* re.search(r'[a-zA-Z]{3,}', text)
HasLetterRun(text) ==
    LET cs == Chars(text)
    IN  \E i \in 1..(Len(cs) - 2) : \A k \in 0..2 : cs[i + k] \in AsciiLetters

kanji_length_score(length) ==
    IF 30 < length /\ length < 150 THEN Tenths(2)
    ELSE IF 150 <= length /\ length < 250 THEN Tenths(1)
    ELSE IF length >= 250 THEN Tenths(-1)
    ELSE Tenths(-2)

\* score before the final min(score, 1.0).
_evaluate_kanji_explanation_score(reasoning) ==
    LET keyword_count == CountIn(learning_keywords, reasoning)
        element_count == CountIn(kanji_explanation_elements, reasoning)
    IN
            (IF keyword_count >= 3 THEN Tenths(4)
             ELSE IF keyword_count >= 2 THEN Tenths(2)
             ELSE IF keyword_count >= 1 THEN Tenths(1) ELSE 0)
            + (IF element_count >= 2 THEN Tenths(2)
               ELSE IF element_count >= 1 THEN Tenths(1) ELSE 0)
            + kanji_length_score(PyLen(reasoning))
            + (IF HasLetterRun(reasoning) THEN Tenths(1) ELSE 0)

\* return min(score, 1.0)
_evaluate_kanji_explanation(reasoning) ==
    Min2(_evaluate_kanji_explanation_score(reasoning), Tenths(10))

\* any(re.search(pattern, reasoning) for pattern in grade_patterns)
HasGradePattern(reasoning) ==
    \/ DigitMatches(reasoning, <<"u5c0f", "u5b66">>, <<"u5e74", "u751f">>) # {}
    \/ DigitMatches(reasoning, <<>>, <<"u5e74", "u751f", "de", "u7fd2", "uu">>) # {}
    \/ DigitMatches(reasoning, <<"u4e2d", "u5b66">>, <<"u5e74", "u751f">>) # {}
    \/ Contains(reasoning, <<"u5e38", "u7528", "u6f22", "u5b57">>)

kanji_evaluate_explanation_consistency(reasoning, extracted, expected) ==
    IF extracted = expected
    THEN (IF HasGradePattern(reasoning) THEN Tenths(2) ELSE 0)
         + (IF \/ Contains(reasoning, <<"u97f3", "u8aad", "mi">>)
               \/ Contains(reasoning, <<"u8a13", "u8aad", "mi">>)
            THEN Tenths(1) ELSE 0)
    ELSE (IF Contains(reasoning, extracted) THEN Tenths(-2) ELSE 0)
         + (IF _is_reading_partially_correct(extracted, expected) THEN Tenths(1) ELSE 0)

kanji_Explain(reasoning, question) == _evaluate_kanji_explanation(reasoning)

kanji_Consistency(reasoning, extracted, expected, question) ==
    kanji_evaluate_explanation_consistency(reasoning, extracted, expected)

\* len(answer) is evaluated only after an answer was extracted from a text
\* with a reasoning block, and raises on None.
enhanced_kanji_quality(a) ==
    LET rs == plain_responses(a)
        qs == IF NewInterface(a) THEN Val(a.prompts) ELSE << <<>> >>
    IN  IF IsNone(a.answer) /\ \E i \in 1..Len(rs) : quality_needs_answer(rs[i])
        THEN Raised("TypeError")
        ELSE Returned([i \in 1..Len(rs) |->
            IF IsNone(reasoning_search(rs[i])) THEN Tenths(-10)
            ELSE LET reasoning == Val(reasoning_search(rs[i]))
                     question == IF i <= Len(qs) THEN Some(qs[i]) ELSE None
                 IN  kanji_Explain(reasoning, question)
                     + (IF ~IsNone(match_format(rs[i])) /\ i <= Len(Val(a.answer))
                        THEN kanji_Consistency(reasoning,
                                 Strip(Val(match_format(rs[i]))),
                                 quality_true_answer(a.answer, i),
                                 question)
                        ELSE 0)])

\* The first grade whose list has a kanji occurring in the answer; 0 (None)
\* when there is none.
correct_grade(kanji) ==
    LET gs == {g \in 1..Len(grade_data) : \E k \in grade_data[g] : Contains(kanji, k)}
    IN  IF gs = {} THEN 0 ELSE CHOOSE g \in gs : \A h \in gs : g <= h

grade_score(text) ==
    LET ms == DigitMatches(text, <<"u5c0f", "u5b66">>, <<"u5e74", "u751f">>)
    IN  IF ms = {} \/ IsNone(match_format(text)) THEN 0
        ELSE LET i == CHOOSE x \in ms : \A y \in ms : x <= y
                 mentioned_grade == digit_value(text[i + 2])
                 correct == correct_grade(Strip(Val(match_format(text))))
             IN  IF correct # 0 /\ mentioned_grade = correct THEN Tenths(3)
                 ELSE IF /\ correct # 0
                         /\ (mentioned_grade - correct = 1 \/ correct - mentioned_grade = 1)
                      THEN Tenths(1)
                      ELSE Tenths(-1)

check_grade_accuracy(a) ==
    LET rs == plain_responses(a)
    IN  Returned([i \in 1..Len(rs) |-> grade_score(rs[i])])

---------------------------------------------------------------------------
(* WordOrderRewardFunctions.                                               *)

VERB_ENDINGS ==
    { <<"ma", "su">>, <<"ma", "si", "ta">>, <<"ma", "se", "nn">>,
      <<"ma", "se", "nn", "de", "si", "ta">>, <<"de", "su">>,
      <<"de", "si", "ta">>, <<"de", "ha", "aa", "ri", "ma", "se", "nn">>,
      <<"de", "ha", "aa", "ri", "ma", "se", "nn", "de", "si", "ta">>,
      <<"ru">>, <<"ta">>, <<"na", "ii">>, <<"na", "ka", "xtu", "ta">>,
      <<"da">>, <<"da", "xtu", "ta">>, <<"de", "ha", "na", "ii">>,
      <<"de", "ha", "na", "ka", "xtu", "ta">> }

word_order_terms ==
    { <<"u8a9e", "u9806">>, <<"u9806", "u756a">>,
      <<"u4e26", "bi", "u66ff", "ee">>,
      <<"u6b63", "si", "ii", "u9806", "u5e8f">>,
      <<"u6587", "no", "u69cb", "u9020">>, <<"u4e3b", "u8a9e">>,
      <<"u8ff0", "u8a9e">>, <<"u76ee", "u7684", "u8a9e">>,
      <<"u4fee", "u98fe", "u8a9e">>, <<"u52a9", "u8a5e">> }

\* pattern_terms; "wave" is the wave dash.
pattern_terms ==
    { <<"wave", "te", "ka", "ra">>, <<"wave", "ta", "me", "ni">>,
      <<"wave", "ke", "do">>, <<"wave", "no", "de">>,
      <<"wave", "ni", "tu", "ii", "te">>, <<"u6642", "u9593">>,
      <<"u5834", "u6240">>, <<"u65b9", "u5411">>, <<"u7406", "u7531">>,
      <<"u76ee", "u7684">> }

\* The grammar terms the consistency score looks for.
word_order_grammar_terms ==
    { <<"u4e3b", "u8a9e">>, <<"u8ff0", "u8a9e">>,
      <<"u76ee", "u7684", "u8a9e">>, <<"u52d5", "u8a5e">> }

\* particles of check_particle_preservation.
particles ==
    { <<"ha">>, <<"ga">>, <<"wo">>, <<"ni">>, <<"de">>, <<"to">>,
      <<"ka", "ra">>, <<"ma", "de">>, <<"yo", "ri">>, <<"mo">>, <<"he">>,
      <<"no">> }

\* difflib.SequenceMatcher(None, a, b).find_longest_match(alo, ahi, blo, bhi)
\* with 1-based inclusive bounds: <<i, j, k>>, the longest common block, the
\* one starting earliest in a and then earliest in b; k = 0 when none.
find_longest_match(a, b, alo, ahi, blo, bhi) ==
    LET IsBlock(i, j, k) ==
            /\ i + k - 1 <= ahi
            /\ j + k - 1 <= bhi
            /\ \A d \in 0..(k - 1) : a[i + d] = b[j + d]
        Blocks == {t \in (alo..ahi) \X (blo..bhi) \X (1..Min2(ahi - alo + 1, bhi - blo + 1)) :
                      IsBlock(t[1], t[2], t[3])}
    IN  IF Blocks = {} THEN <<alo, blo, 0>>
        ELSE CHOOSE t \in Blocks : \A u \in Blocks :
                \/ t[3] > u[3]
                \/ t[3] = u[3] /\ t[1] < u[1]
                \/ t[3] = u[3] /\ t[1] = u[1] /\ t[2] <= u[2]

\* The total size of get_matching_blocks(): the longest block, then the
\* blocks to its left and to its right.
RECURSIVE matching_size(_, _, _, _, _, _)
matching_size(a, b, alo, ahi, blo, bhi) ==
    IF alo > ahi \/ blo > bhi THEN 0
    ELSE LET m == find_longest_match(a, b, alo, ahi, blo, bhi)
         IN  IF m[3] = 0 THEN 0
             ELSE m[3]
                  + matching_size(a, b, alo, m[1] - 1, blo, m[2] - 1)
                  + matching_size(a, b, m[1] + m[3], ahi, m[2] + m[3], bhi)

\* ratio() >= 0.7, ratio() = 2.0 * matches / (len(a) + len(b)), 1.0 when both
\* are empty.  Sequences shorter than 200 have no automatic junk.
similarity_at_least_07(guess, answer) ==
    LET a == Chars(guess)
        b == Chars(answer)
    IN  IF Len(a) + Len(b) = 0 THEN TRUE
        ELSE 20 * matching_size(a, b, 1, Len(a), 1, Len(b)) >= 7 * (Len(a) + Len(b))

\* _evaluate_word_order with the word-set overlap tested before the bands
\* of the position score.
_evaluate_word_order_overlap_first(guess, answer) ==
    LET guess_words == Split(guess)
        answer_words == Split(answer)
        n == Len(answer_words)
        correct_positions ==
            Cardinality({i \in 1..Min2(Len(guess_words), n) : guess_words[i] = answer_words[i]})
        common_words == Range(guess_words) \cap Range(answer_words)
        verb_ending_bonus ==
            IF Len(guess_words) > 0 /\ n > 0
            THEN IF guess_words[Len(guess_words)] = answer_words[n] THEN Tenths(3)
                 ELSE 0
            ELSE 0
    IN  IF guess = answer THEN Tenths(20)
        ELSE IF Len(guess_words) = n
        THEN IF correct_positions = n THEN Tenths(20)
             ELSE IF 10 * Cardinality(common_words) >= 8 * n THEN Tenths(5) + verb_ending_bonus
             ELSE IF 10 * correct_positions >= 8 * n THEN Tenths(15) + verb_ending_bonus
             ELSE IF 10 * correct_positions >= 6 * n THEN Tenths(10) + verb_ending_bonus
             ELSE Tenths(-5)
        ELSE Tenths(-10)

\* guess and answer are stripped and differ, so answer_words is not empty
\* when both have the same number of words.
_evaluate_word_order(guess, answer) ==
    LET guess_words == Split(guess)
        answer_words == Split(answer)
        n == Len(answer_words)
        correct_positions ==
            Cardinality({i \in 1..Min2(Len(guess_words), n) : guess_words[i] = answer_words[i]})
        common_words == Range(guess_words) \cap Range(answer_words)
        verb_ending_bonus ==
            IF Len(guess_words) > 0 /\ n > 0
            THEN IF guess_words[Len(guess_words)] = answer_words[n] THEN Tenths(3)
                 ELSE IF \E ending \in VERB_ENDINGS :
                            EndsWith(guess, ending) /\ EndsWith(answer, ending)
                      THEN Tenths(2)
                      ELSE 0
            ELSE 0
    IN  IF guess = answer THEN Tenths(20)
        ELSE IF Len(guess_words) = n
        THEN IF correct_positions = n THEN Tenths(20)
             ELSE IF 10 * correct_positions >= 8 * n THEN Tenths(15) + verb_ending_bonus
             ELSE IF 10 * correct_positions >= 6 * n THEN Tenths(10) + verb_ending_bonus
             ELSE IF 10 * Cardinality(common_words) >= 8 * n THEN Tenths(5) + verb_ending_bonus
             ELSE Tenths(-5)
        ELSE IF 10 * Cardinality(common_words) >= 8 * n THEN Tenths(3)
             ELSE IF similarity_at_least_07(guess, answer) THEN Tenths(1)
             ELSE Tenths(-10)

\* One score per pair of zip(extracted_responses, answer).
balanced_check_word_order(a) ==
    LET rs == balanced_responses(a)
        as == balanced_answers(a)
        n == Min2(Len(rs), Len(as))
    IN  Returned([i \in 1..n |->
            IF IsNone(match_format(rs[i])) THEN Tenths(-30)
            ELSE _evaluate_word_order(Strip(Val(match_format(rs[i]))),
                                     Strip(StrOf(as[i])))])

word_order_length_score(length) ==
    IF 30 < length /\ length < 150 THEN Tenths(2)
    ELSE IF 150 <= length /\ length < 250 THEN Tenths(1)
    ELSE IF length >= 250 THEN Tenths(-1)
    ELSE Tenths(-2)

\* score before the final min(score, 1.0).
word_order_evaluate_grammar_explanation_score(reasoning) ==
    LET order_count == CountIn(word_order_terms, reasoning)
        pattern_count == CountIn(pattern_terms, reasoning)
    IN
            (IF order_count >= 3 THEN Tenths(4)
             ELSE IF order_count >= 2 THEN Tenths(2)
             ELSE IF order_count >= 1 THEN Tenths(1) ELSE 0)
            + (IF pattern_count >= 2 THEN Tenths(3)
               ELSE IF pattern_count >= 1 THEN Tenths(1) ELSE 0)
            + word_order_length_score(PyLen(reasoning))
            + (IF Contains(reasoning, <<"lq">>) /\ Contains(reasoning, <<"rq">>)
               THEN Tenths(1) ELSE 0)

\* return min(score, 1.0)
word_order_evaluate_grammar_explanation(reasoning) ==
    Min2(word_order_evaluate_grammar_explanation_score(reasoning), Tenths(10))

word_order_evaluate_explanation_consistency(reasoning, extracted, expected, question) ==
    IF extracted = expected
    THEN (IF \/ Contains(reasoning, <<"u6b63", "si", "ii", "u8a9e", "u9806">>)
             \/ Contains(reasoning, <<"u6b63", "si", "ii", "u9806", "u756a">>)
          THEN Tenths(3) ELSE 0)
         + (IF \E term \in word_order_grammar_terms : Contains(reasoning, term)
            THEN Tenths(2) ELSE 0)
    ELSE (IF Contains(reasoning, extracted) THEN Tenths(-2) ELSE 0)
         + (IF 10 * Cardinality(Range(Split(extracted)) \cap Range(Split(expected)))
                  >= 7 * Cardinality(Range(Split(expected)))
            THEN Tenths(1) ELSE 0)

word_order_Explain(reasoning, question) ==
    word_order_evaluate_grammar_explanation(reasoning)

\* if i < len(questions): the consistency score needs the question of the
\* example.
word_order_Consistency(reasoning, extracted, expected, question) ==
    IF IsNone(question) THEN 0
    ELSE word_order_evaluate_explanation_consistency(reasoning, extracted, expected,
                                                     Val(question))

\* len(answer) is evaluated only after an answer was extracted from a text
\* with a reasoning block, and raises on None.
enhanced_word_order_quality(a) ==
    LET rs == plain_responses(a)
        qs == IF NewInterface(a) THEN Val(a.prompts) ELSE << <<>> >>
    IN  IF IsNone(a.answer) /\ \E i \in 1..Len(rs) : quality_needs_answer(rs[i])
        THEN Raised("TypeError")
        ELSE Returned([i \in 1..Len(rs) |->
            IF IsNone(reasoning_search(rs[i])) THEN Tenths(-10)
            ELSE LET reasoning == Val(reasoning_search(rs[i]))
                     question == IF i <= Len(qs) THEN Some(qs[i]) ELSE None
                 IN  word_order_Explain(reasoning, question)
                     + (IF ~IsNone(match_format(rs[i])) /\ i <= Len(Val(a.answer))
                        THEN word_order_Consistency(reasoning,
                                 Strip(Val(match_format(rs[i]))),
                                 quality_true_answer(a.answer, i),
                                 question)
                        ELSE 0)])

\* expected_answers of check_particle_preservation: the answer block of a full
\* solution, else the element; [str(answer)] * n when the list is omitted or
\* empty.  Never broadcast.
expected_answers(a) ==
    LET n == Len(plain_responses(a))
    IN  IF IsNone(a.answer) THEN [i \in 1..n |-> StrNone]
        ELSE IF Len(Val(a.answer)) = 0 THEN [i \in 1..n |-> <<"[", "]">>]
        ELSE extracted_answers(Val(a.answer))

\* s.find(pat) on characters, 1-based; 0 when absent.
FindChars(s, pat) ==
    LET cs == Chars(s)
        cp == Chars(pat)
        hits == {i \in 1..(Len(cs) + 1) : OccursAt(cs, cp, i)}
    IN  IF hits = {} THEN 0 ELSE CHOOSE i \in hits : \A j \in hits : i <= j

\* The (at most two) characters before position idx.
TwoBefore(s, idx) == Slice(Chars(s), Max2(1, idx - 2), idx - 1)

particle_preservation_score(guess, expected) ==
    LET expected_particles == {p \in particles : Contains(expected, p)}
        guess_particles == {p \in particles : Contains(guess, p)}
        attached == {p \in expected_particles :
                        /\ Contains(guess, p)
                        /\ FindChars(expected, p) > 1
                        /\ FindChars(guess, p) > 1
                        /\ TwoBefore(expected, FindChars(expected, p))
                               = TwoBefore(guess, FindChars(guess, p))}
    IN  (IF expected_particles = guess_particles THEN Tenths(3)
         ELSE IF 10 * Cardinality(expected_particles \cap guess_particles)
                     >= 8 * Cardinality(expected_particles)
         THEN Tenths(1)
         ELSE Tenths(-2))
        + Tenths(1) * Cardinality(attached)

check_particle_preservation(a) ==
    LET rs == plain_responses(a)
        es == expected_answers(a)
        n == Min2(Len(rs), Len(es))
    IN  Returned([i \in 1..n |->
            IF IsNone(match_format(rs[i])) THEN Tenths(-5)
            ELSE particle_preservation_score(Val(match_format(rs[i])), es[i])])

---------------------------------------------------------------------------
(* JapaneseTaskRewardFunctions (rewards.py): the eight general scorers.    *)
(* accuracy_stats is the instance's defaultdict(list): one list per key, a *)
(* key that was never appended to reading as the empty list.               *)

\* keywords of check_reasoning_quality
reasoning_keywords ==
    { <<"u5e74", "u751f">>, <<"u7fd2", "uu">>, <<"u610f", "u5473">>,
      <<"u8aad", "mi">>, <<"u66f8", "ki">>, <<"u6f22", "u5b57">>,
      <<"u97f3", "u8aad", "mi">>, <<"u8a13", "u8aad", "mi">> }

\* order_keywords of check_word_order_quality
order_keywords ==
    { <<"u8a9e", "u9806">>, <<"u9806", "u756a">>,
      <<"u4e26", "bi", "u66ff", "ee">>, <<"u52a9", "u8a5e">>,
      <<"u4e3b", "u8a9e">>, <<"u8ff0", "u8a9e">>, <<"u6587", "u6cd5">>,
      <<"u6b63", "si", "ii", "u9806", "u5e8f">> }

\* particles of _evaluate_word_order_quality
quality_particles ==
    { <<"ha">>, <<"ga">>, <<"wo">>, <<"ni">>, <<"de">>, <<"to">>,
      <<"ka", "ra">>, <<"ma", "de">>, <<"yo", "ri">>, <<"mo">>, <<"he">> }

\* subject_markers of _evaluate_word_order_quality
subject_markers ==
    { <<"u79c1", "ha">>, <<"u5f7c", "ha">>, <<"u5f7c", "u5973", "ha">>,
      <<"ko", "re", "ha">>, <<"so", "re", "ha">> }

\* verb_endings of _evaluate_word_order_quality
verb_endings ==
    { <<"ma", "su">>, <<"de", "su">>, <<"de", "aa", "ru">>, <<"da">>,
      <<"ma", "si", "ta">>, <<"de", "si", "ta">>,
      <<"de", "si", "xyo", "uu">> }

\* COMMON_PARTICLES of check_particle_quality
quality_COMMON_PARTICLES ==
    { <<"ga">>, <<"wo">>, <<"ni">>, <<"de">>, <<"he">>, <<"to">>, <<"no">>,
      <<"ha">>, <<"mo">>, <<"ka", "ra">>, <<"ma", "de">>, <<"yo", "ri">>,
      <<"ya">>, <<"na", "do">>, <<"no", "de">>, <<"no", "ni">>,
      <<"te", "mo">>, <<"de", "mo">>, <<"te", "ha">>, <<"ni", "ha">>,
      <<"de", "ha">>, <<"he", "ha">> }

\* grammar_terms of check_particle_quality
grammar_terms ==
    { <<"u4e3b", "u8a9e">>, <<"u76ee", "u7684", "u8a9e">>,
      <<"u5bfe", "u8c61">>, <<"u5834", "u6240">>, <<"u65b9", "u5411">>,
      <<"u624b", "u6bb5">>, <<"u7406", "u7531">>, <<"u6642", "u9593">>,
      <<"u52d5", "u4f5c">>, <<"u52a9", "u8a5e">> }

\* COMMON_COUNTERS of check_counter_quality
COMMON_COUNTERS ==
    { <<"tu">>, <<"u500b">>, <<"u672c">>, <<"u679a">>, <<"u53f0">>,
      <<"u4eba">>, <<"u5339">>, <<"u982d">>, <<"u7fbd">>, <<"u518a">>,
      <<"u56de">>, <<"u5ea6">>, <<"u756a">>, <<"u8db3">>, <<"u7740">>,
      <<"u676f">>, <<"u5186">>, <<"u6b73">>, <<"u6642">>, <<"u5206">>,
      <<"u79d2">>, <<"u65e5">>, <<"u6708">>, <<"u5e74">>,
      <<"u9031", "u9593">>, <<"XKE", "u6708">>, <<"u968e">>, <<"u8ed2">>,
      <<"u901a">>, <<"u4ef6">>, <<"u540d">>, <<"u6a5f">> }

\* counter_keywords of check_counter_quality
quality_counter_keywords ==
    { <<"u52a9", "u6570", "u8a5e">>, <<"u6570", "ee", "ru">>,
      <<"KA", "UU", "NN", "TO">>, <<"u5358", "u4f4d">>,
      <<"u6570", "u5b57">>, <<"u6570", "u91cf">>, <<"u500b", "u6570">>,
      <<"u7269", "no", "u5f62">>, <<"u5206", "u985e">> }

\* sound_change_keywords of check_counter_quality
sound_change_keywords ==
    { <<"u97f3", "u5909", "u5316">>, <<"u8aad", "mi", "u65b9">>,
      <<"u767a", "u97f3">>, <<"ii", "ti">>, <<"ni">>, <<"sa", "nn">>,
      <<"yo", "nn">>, <<"go">>, <<"ro", "ku">>, <<"na", "na">>,
      <<"ha", "ti">>, <<"ki", "xyu", "uu">>, <<"zi", "xyu", "uu">> }

\* the class [0-9 fullwidth 0-9 and the kanji numerals] of the counter pattern
counter_numeral_class ==
    { "0", "1", "2", "3", "4", "5", "6", "7", "8", "9", "fw0", "fw1",
      "fw2", "fw3", "fw4", "fw5", "fw6", "fw7", "fw8", "fw9", "u4e00",
      "u4e8c", "u4e09", "u56db", "u4e94", "u516d", "u4e03", "u516b",
      "u4e5d", "u5341", "u767e", "u5343", "u4e07", "u5104" }

\* the class [U+3041-U+3093, U+30A1-U+30F3, U+3005] of the counter pattern
counter_kana_class ==
    { "xa", "aa", "xi", "ii", "xu", "uu", "xe", "ee", "xo", "oo", "ka",
      "ga", "ki", "gi", "ku", "gu", "ke", "ge", "ko", "go", "sa", "za",
      "si", "zi", "su", "zu", "se", "ze", "so", "zo", "ta", "da", "ti",
      "di", "xtu", "tu", "du", "te", "de", "to", "do", "na", "ni", "nu",
      "ne", "no", "ha", "ba", "pa", "hi", "bi", "pi", "hu", "bu", "pu",
      "he", "be", "pe", "ho", "bo", "po", "ma", "mi", "mu", "me", "mo",
      "xya", "ya", "xyu", "yu", "xyo", "yo", "ra", "ri", "ru", "re",
      "ro", "xwa", "wa", "wi", "we", "wo", "nn", "XA", "AA", "XI", "II",
      "XU", "UU", "XE", "EE", "XO", "OO", "KA", "GA", "KI", "GI", "KU",
      "GU", "KE", "GE", "KO", "GO", "SA", "ZA", "SI", "ZI", "SU", "ZU",
      "SE", "ZE", "SO", "ZO", "TA", "DA", "TI", "DI", "XTU", "TU", "DU",
      "TE", "DE", "TO", "DO", "NA", "NI", "NU", "NE", "NO", "HA", "BA",
      "PA", "HI", "BI", "PI", "HU", "BU", "PU", "HE", "BE", "PE", "HO",
      "BO", "PO", "MA", "MI", "MU", "ME", "MO", "XYA", "YA", "XYU", "YU",
      "XYO", "YO", "RA", "RI", "RU", "RE", "RO", "XWA", "WA", "WI", "WE",
      "WO", "NN", "noma" }

\* the markers of the three lists of KEIGO_MARKERS
KEIGO_MARKERS ==
    { <<"re", "ru">>, <<"ra", "re", "ru">>,
      <<"ii", "ra", "xtu", "si", "xya", "ru">>,
      <<"oo", "xtu", "si", "xya", "ru">>,
      <<"u53ec", "si", "u4e0a", "ga", "ru">>,
      <<"oo", "/", "go", "fwtilde", "ni", "na", "ru">>,
      <<"fwtilde", "re", "ma", "su">>,
      <<"fwtilde", "ra", "re", "ma", "su">>, <<"ii", "ta", "su">>,
      <<"u7533", "su">>, <<"u4f3a", "uu">>, <<"u62dd", "u898b">>,
      <<"oo", "/", "go", "fwtilde", "su", "ru">>,
      <<"sa", "se", "te", "ii", "ta", "da", "ku">>,
      <<"ii", "ta", "si", "ma", "su">>,
      <<"u7533", "si", "u4e0a", "ge", "ru">>, <<"de", "su">>,
      <<"ma", "su">>, <<"go", "za", "ii", "ma", "su">>,
      <<"de", "go", "za", "ii", "ma", "su">> }

\* keigo_keywords of check_keigo_quality
quality_keigo_keywords ==
    { <<"u656c", "u8a9e">>, <<"u5c0a", "u656c", "u8a9e">>,
      <<"u8b19", "u8b72", "u8a9e">>, <<"u4e01", "u5be7", "u8a9e">>,
      <<"u7f8e", "u5316", "u8a9e">>, <<"u656c", "u610f">>,
      <<"u76f8", "u624b">>, <<"u7acb", "u5834">>,
      <<"u4e0a", "u4e0b", "u95a2", "u4fc2">> }

\* the endings of extracted_answer.endswith(...) in check_keigo_quality
keigo_endings ==
    { <<"ma", "su">>, <<"de", "su">>, <<"ma", "si", "ta">>,
      <<"de", "si", "ta">>, <<"go", "za", "ii", "ma", "su">>,
      <<"ii", "ta", "si", "ma", "su">> }

\* The pairs of positions a/b, c/d (lowest terms, strings of at most 12
\* characters) that are exactly 0.1 apart and whose float difference
\* abs(a/b - c/d) rounds below 0.1.
rounds_below_tenth ==
    { <<1, 2, 2, 5>>, <<1, 2, 3, 5>>, <<1, 5, 3, 10>>, <<2, 5, 1, 2>>,
      <<3, 5, 1, 2>>, <<3, 5, 7, 10>>, <<3, 10, 1, 5>>, <<4, 5, 9, 10>>,
      <<7, 10, 3, 5>>, <<9, 10, 4, 5>> }

EmptyStats ==
    [correct_format |-> <<>>, no_answer |-> <<>>, correct_answer |-> <<>>,
     partial_answer |-> <<>>, wrong_answer |-> <<>>]

\* What a call of a scorer that keeps statistics leaves behind.
Outcome(result, stats) == [ret |-> result, stats |-> stats]

\* n times the element x
Repeat(x, n) == [i \in 1..n |-> x]

\* text.count(tok) for a tag
CountToken(text, tok) == Cardinality({i \in 1..Len(text) : text[i] = tok})

\* match_format_exactly giving no credit once the statistics hold a failure.
match_format_exactly_unforgiving(a, stats) ==
    LET rs == plain_responses(a)
        found == [i \in 1..Len(rs) |-> ~IsNone(match_format(rs[i]))]
        failed == \E j \in 1..Len(stats.correct_format) : stats.correct_format[j] = 0
    IN  Outcome(Returned([i \in 1..Len(rs) |->
                    IF found[i] /\ ~failed THEN Tenths(10) ELSE Tenths(-10)]),
                [stats EXCEPT !.correct_format =
                    @ \o [i \in 1..Len(rs) |-> IF found[i] THEN 1 ELSE 0]])

match_format_exactly(a, stats) ==
    LET rs == plain_responses(a)
        found == [i \in 1..Len(rs) |-> ~IsNone(match_format(rs[i]))]
    IN  Outcome(Returned([i \in 1..Len(rs) |->
                    IF found[i] THEN Tenths(10) ELSE Tenths(-10)]),
                [stats EXCEPT !.correct_format =
                    @ \o [i \in 1..Len(rs) |-> IF found[i] THEN 1 ELSE 0]])

\* match_format_approximately crediting a marker that occurs at least once.
match_format_approximately_lenient(a) ==
    LET rs == plain_responses(a)
        part(text, tag) == IF CountToken(text, tag) >= 1 THEN 25 ELSE -50
    IN  Returned([i \in 1..Len(rs) |->
            (part(rs[i], reasoning_end) + part(rs[i], solution_start)
               + part(rs[i], solution_end)) * (Unit \div 100)])

match_format_approximately(a) ==
    LET rs == plain_responses(a)
        part(text, tag) == IF CountToken(text, tag) = 1 THEN 25 ELSE -50
    IN  Returned([i \in 1..Len(rs) |->
            (part(rs[i], reasoning_end) + part(rs[i], solution_start)
               + part(rs[i], solution_end)) * (Unit \div 100)])

\* re.search(r'seikai[:]\s*([^\n]+)', question) with either colon: the
\* stripped group(1), or None.  The greedy \s* stops at the last place from
\* which a character other than a newline follows.
answer_in_question(q) ==
    LET starts(p) == {j \in (p + 3)..Len(q) :
                        /\ q[j] # "\n"
                        /\ \A k \in (p + 3)..(j - 1) : IsSpace(q[k])}
        Ps == {p \in 1..Len(q) :
                  /\ OccursAt(q, <<"u6b63", "u89e3">>, p)
                  /\ p + 2 <= Len(q)
                  /\ q[p + 2] \in {"uff1a", ":"}
                  /\ starts(p) # {}}
    IN  IF Ps = {} THEN None
        ELSE LET p == CHOOSE x \in Ps : \A y \in Ps : x <= y
                 j == CHOOSE x \in starts(p) : \A y \in starts(p) : y <= x
             IN  Some(Strip(Slice(q, j, LineEnd(q, j))))

\* The answer list check_answer zips with.  New interface: when answer is
\* None or empty it is read from the first prompt, [""] * n when the prompt
\* has none.  Old interface: kwargs.get('answer', []) is always [], answer
\* being a named parameter.  Then [answer] * n when not a list, broadcast
\* when it has one element.
check_answer_answers(a) ==
    LET n == Len(balanced_responses(a))
        absent == IsNone(a.answer) \/ Len(Val(a.answer)) = 0
        ans == IF ~NewInterface(a) THEN Some(<<>>)
               ELSE IF Len(Val(a.prompts)) > 0 /\ absent
               THEN IF IsNone(answer_in_question(Val(a.prompts)[1]))
                    THEN Some(Repeat(<<>>, Len(Val(a.completions))))
                    ELSE Some(<<Val(answer_in_question(Val(a.prompts)[1]))>>)
               ELSE a.answer
    IN  IF IsNone(ans) THEN Repeat(None, n)
        ELSE IF Len(Val(ans)) = 1 /\ n > 1 THEN Repeat(Some(Val(ans)[1]), n)
        ELSE [i \in 1..Len(Val(ans)) |-> Some(Val(ans)[i])]

\* The branch of check_answer's comparison a stripped pair takes.
check_answer_case(guess, true_answer) ==
    IF guess = true_answer THEN "exact"
    ELSE IF Replace(guess, <<" ">>, <<>>) = Replace(true_answer, <<" ">>, <<>>)
    THEN "spaces"
    ELSE IF Replace(Replace(guess, <<"ZSP">>, <<>>), <<"touten">>, <<>>)
              = Replace(Replace(true_answer, <<"ZSP">>, <<>>), <<"touten">>, <<>>)
    THEN "punctuation"
    ELSE IF PyLen(true_answer) = 1 /\ PyLen(guess) = 1 THEN "single"
    ELSE IF Contains(guess, true_answer) \/ Contains(true_answer, guess)
    THEN "partial"
    ELSE "wrong"

check_answer_score(guess, true_answer) ==
    LET c == check_answer_case(guess, true_answer)
    IN  CASE c = "exact" -> Tenths(30)
          [] c = "spaces" -> Tenths(25)
          [] c = "punctuation" -> Tenths(20)
          [] c = "single" -> Tenths(-15)
          [] c = "partial" ->
                (Unit * Min2(PyLen(guess), PyLen(true_answer)))
                    \div Max2(PyLen(guess), PyLen(true_answer))
          [] c = "wrong" -> Tenths(-15)

\* The accuracy_stats key that gets a 1 appended for a pair ("" for none).
check_answer_key(guess, true_answer) ==
    LET c == check_answer_case(guess, true_answer)
    IN  CASE c \in {"exact", "spaces"} -> "correct_answer"
          [] c \in {"punctuation", "partial"} -> "partial_answer"
          [] c = "single" -> ""
          [] c = "wrong" -> "wrong_answer"

\* In the new interface a full solution as first reference reaches
\* re.search at line 118 while re is a local name of the function (the
\* import at line 130) that is not yet bound: UnboundLocalError.
check_answer(a, stats) ==
    IF NewInterface(a) /\ FirstIsFullSolution(a.answer)
    THEN Outcome(Raised("UnboundLocalError"), stats)
    ELSE
    LET rs == balanced_responses(a)
        as == check_answer_answers(a)
        n == Min2(Len(rs), Len(as))
        guess(i) == Strip(Val(match_format(rs[i])))
        true_answer(i) == Strip(StrOf(as[i]))
        key == [i \in 1..n |->
                   IF IsNone(match_format(rs[i])) THEN "no_answer"
                   ELSE check_answer_key(guess(i), true_answer(i))]
        ones(k) == Repeat(1, Cardinality({i \in 1..n : key[i] = k}))
    IN  Outcome(Returned([i \in 1..n |->
                    IF IsNone(match_format(rs[i])) THEN Tenths(-20)
                    ELSE check_answer_score(guess(i), true_answer(i))]),
                [stats EXCEPT !.no_answer = @ \o ones("no_answer"),
                              !.correct_answer = @ \o ones("correct_answer"),
                              !.partial_answer = @ \o ones("partial_answer"),
                              !.wrong_answer = @ \o ones("wrong_answer")])

\* re.search(r'[a-zA-Z]+', text)
HasLetter(text) == \E i \in 1..PyLen(text) : Chars(text)[i] \in AsciiLetters

\* The keyword part of the general quality scores: at least many -> 0.5,
\* at least one -> 0.2.
keyword_score(count, many) ==
    IF count >= many THEN Tenths(5) ELSE IF count >= 1 THEN Tenths(2) ELSE 0

\* The length part: (lo, mid) -> 0.3, [mid, hi) -> 0.1.
length_score(length, lo, mid, hi) ==
    IF lo < length /\ length < mid THEN Tenths(3)
    ELSE IF mid <= length /\ length < hi THEN Tenths(1)
    ELSE 0

check_reasoning_quality(a) ==
    LET rs == plain_responses(a)
    IN  Returned([i \in 1..Len(rs) |->
            IF IsNone(reasoning_search(rs[i])) THEN Tenths(-5)
            ELSE LET reasoning == Val(reasoning_search(rs[i]))
                 IN  keyword_score(CountIn(reasoning_keywords, reasoning), 3)
                     + length_score(PyLen(reasoning), 20, 100, 200)
                     + (IF PyLen(reasoning) >= 200 THEN Tenths(-2) ELSE 0)
                     + (IF HasLetter(reasoning) THEN Tenths(1) ELSE 0)])

\* abs(ei / el - xi / xl) < 0.1 as the floats decide it, for the 0-based
\* positions ei, xi in strings of el, xl characters.
relative_position_close(ei, el, xi, xl) ==
    LET diff == IF ei * xl >= xi * el THEN ei * xl - xi * el ELSE xi * el - ei * xl
        ge == Gcd(ei, el)
        gx == Gcd(xi, xl)
    IN  \/ 10 * diff < el * xl
        \/ <<ei \div ge, el \div ge, xi \div gx, xl \div gx>> \in rounds_below_tenth

_evaluate_word_order_quality(extracted, expected) ==
    IF Len(extracted) = 0 \/ Len(expected) = 0 THEN 0
    ELSE
    LET placed == {p \in quality_particles :
                      /\ Contains(expected, p)
                      /\ Contains(extracted, p)
                      /\ relative_position_close(
                             FindChars(expected, p) - 1, PyLen(expected),
                             FindChars(extracted, p) - 1, PyLen(extracted))}
        leading == {m \in subject_markers :
                       /\ Contains(expected, m)
                       /\ Contains(extracted, m)
                       /\ 10 * (FindChars(expected, m) - 1) < 3 * PyLen(expected)
                       /\ 10 * (FindChars(extracted, m) - 1) < 3 * PyLen(extracted)}
        expected_words == Split(expected)
        extracted_words == Split(extracted)
        correct_positions ==
            Cardinality({i \in 1..Len(expected_words) :
                            expected_words[i] = extracted_words[i]})
        bonus ==
            Tenths(1) * Cardinality(placed)
            + Tenths(2) * Cardinality(leading)
            + (IF \E e \in verb_endings :
                     EndsWith(expected, e) /\ EndsWith(extracted, e)
               THEN Tenths(3) ELSE 0)
            + (IF Len(expected_words) = Len(extracted_words)
               THEN (Unit * correct_positions) \div (2 * Len(expected_words))
               ELSE 0)
    IN  Min2(bonus, Tenths(10))

\* expected_answer of check_word_order_quality: answer[i] when the list has
\* one, "" otherwise; a full solution gives the stripped content the Format
\* Matcher extracts from it.
quality_expected_answer(a, i) ==
    IF IsNone(a.answer) \/ i > Len(Val(a.answer)) THEN <<>>
    ELSE LET t == Val(a.answer)[i]
         IN  IF HasAnswerTag(t) /\ ~IsNone(match_format(t))
             THEN Strip(Val(match_format(t)))
             ELSE t

check_word_order_quality(a) ==
    LET rs == plain_responses(a)
        questions == IF NewInterface(a) THEN Val(a.prompts) ELSE << <<>> >>
    IN  Returned([i \in 1..Len(rs) |->
            IF i > Len(questions) THEN 0
            ELSE
            (IF IsNone(reasoning_search(rs[i])) THEN 0
             ELSE LET reasoning == Val(reasoning_search(rs[i]))
                  IN  keyword_score(CountIn(order_keywords, reasoning), 3)
                      + length_score(PyLen(reasoning), 20, 150, 300))
            + (IF IsNone(match_format(rs[i])) THEN 0
               ELSE _evaluate_word_order_quality(
                        Strip(Val(match_format(rs[i]))),
                        quality_expected_answer(a, i)))])

check_particle_quality(a) ==
    LET rs == plain_responses(a)
    IN  Returned([i \in 1..Len(rs) |->
            (IF IsNone(reasoning_search(rs[i])) THEN 0
             ELSE LET reasoning == Val(reasoning_search(rs[i]))
                  IN  keyword_score(CountIn(grammar_terms, reasoning), 2)
                      + length_score(PyLen(reasoning), 20, 150, 250))
            + (IF IsNone(match_format(rs[i])) THEN 0
               ELSE LET extracted_answer == Strip(Val(match_format(rs[i])))
                    IN  IF extracted_answer \in quality_COMMON_PARTICLES
                        THEN Tenths(5)
                        ELSE IF PyLen(extracted_answer) <= 3 THEN Tenths(2)
                        ELSE 0)])

\* re.match(r'^[numerals]+[kana]+$', text)
IsNumberAndKana(text) ==
    LET cs == Chars(text)
    IN  \E k \in 1..(Len(cs) - 1) :
            /\ \A i \in 1..k : cs[i] \in counter_numeral_class
            /\ \A i \in (k + 1)..Len(cs) : cs[i] \in counter_kana_class

check_counter_quality(a) ==
    LET rs == plain_responses(a)
    IN  Returned([i \in 1..Len(rs) |->
            (IF IsNone(reasoning_search(rs[i])) THEN 0
             ELSE LET reasoning == Val(reasoning_search(rs[i]))
                  IN  keyword_score(CountIn(quality_counter_keywords, reasoning), 2)
                      + (IF \E k \in sound_change_keywords : Contains(reasoning, k)
                         THEN Tenths(3) ELSE 0)
                      + length_score(PyLen(reasoning), 30, 200, 300))
            + (IF IsNone(match_format(rs[i])) THEN 0
               ELSE LET extracted_answer == Strip(Val(match_format(rs[i])))
                    IN  IF \E c \in COMMON_COUNTERS : Contains(extracted_answer, c)
                        THEN Tenths(5)
                        ELSE IF IsNumberAndKana(extracted_answer) THEN Tenths(4)
                        ELSE IF PyLen(extracted_answer) <= 10 THEN Tenths(2)
                        ELSE 0)])

check_keigo_quality(a) ==
    LET rs == plain_responses(a)
    IN  Returned([i \in 1..Len(rs) |->
            (IF IsNone(reasoning_search(rs[i])) THEN 0
             ELSE LET reasoning == Val(reasoning_search(rs[i]))
                  IN  keyword_score(CountIn(quality_keigo_keywords, reasoning), 3)
                      + (IF \E m \in KEIGO_MARKERS : Contains(reasoning, m)
                         THEN Tenths(3) ELSE 0)
                      + length_score(PyLen(reasoning), 30, 200, 300))
            + (IF IsNone(match_format(rs[i])) THEN 0
               ELSE LET extracted_answer == Strip(Val(match_format(rs[i])))
                        keigo_score ==
                            (IF \E m \in KEIGO_MARKERS : Contains(extracted_answer, m)
                             THEN Tenths(3) ELSE 0)
                            + (IF \E e \in keigo_endings : EndsWith(extracted_answer, e)
                               THEN Tenths(2) ELSE 0)
                    IN  Min2(keigo_score, Tenths(5)))])

---------------------------------------------------------------------------
(* Katakana folding (src/nihongo_dojo/tasks/complete_kanji_tasks.py and    *)
(* src/nihongo_dojo/data/huggingface_dataset_builder.py).  Here a str is   *)
(* the sequence of its code points, a character the number ord(char).      *)

\* CompleteKanjiTask._katakana_to_hiragana: a code point of the katakana
\* range is moved down by 0x60, every other character is kept.
CompleteKanjiTask_katakana_to_hiragana(text) ==
    [i \in 1..Len(text) |->
        IF \H30A1 <= text[i] /\ text[i] <= \H30F6
        THEN text[i] - \H60
        ELSE text[i]]

\* katakana_chart of HuggingFaceDatasetBuilder._katakana_to_hiragana, as
\* pairs <<ord(key), ord(value)>> in the order of the source.
katakana_chart ==
    {
      <<\H30A2, \H3042>>, <<\H30A4, \H3044>>, <<\H30A6, \H3046>>, <<\H30A8, \H3048>>, <<\H30AA, \H304A>>,
      <<\H30AB, \H304B>>, <<\H30AD, \H304D>>, <<\H30AF, \H304F>>, <<\H30B1, \H3051>>, <<\H30B3, \H3053>>,
      <<\H30AC, \H304C>>, <<\H30AE, \H304E>>, <<\H30B0, \H3050>>, <<\H30B2, \H3052>>, <<\H30B4, \H3054>>,
      <<\H30B5, \H3055>>, <<\H30B7, \H3057>>, <<\H30B9, \H3059>>, <<\H30BB, \H305B>>, <<\H30BD, \H305D>>,
      <<\H30B6, \H3056>>, <<\H30B8, \H3058>>, <<\H30BA, \H305A>>, <<\H30BC, \H305C>>, <<\H30BE, \H305E>>,
      <<\H30BF, \H305F>>, <<\H30C1, \H3061>>, <<\H30C4, \H3064>>, <<\H30C6, \H3066>>, <<\H30C8, \H3068>>,
      <<\H30C0, \H3060>>, <<\H30C2, \H3062>>, <<\H30C5, \H3065>>, <<\H30C7, \H3067>>, <<\H30C9, \H3069>>,
      <<\H30CA, \H306A>>, <<\H30CB, \H306B>>, <<\H30CC, \H306C>>, <<\H30CD, \H306D>>, <<\H30CE, \H306E>>,
      <<\H30CF, \H306F>>, <<\H30D2, \H3072>>, <<\H30D5, \H3075>>, <<\H30D8, \H3078>>, <<\H30DB, \H307B>>,
      <<\H30D0, \H3070>>, <<\H30D3, \H3073>>, <<\H30D6, \H3076>>, <<\H30D9, \H3079>>, <<\H30DC, \H307C>>,
      <<\H30D1, \H3071>>, <<\H30D4, \H3074>>, <<\H30D7, \H3077>>, <<\H30DA, \H307A>>, <<\H30DD, \H307D>>,
      <<\H30DE, \H307E>>, <<\H30DF, \H307F>>, <<\H30E0, \H3080>>, <<\H30E1, \H3081>>, <<\H30E2, \H3082>>,
      <<\H30E4, \H3084>>, <<\H30E6, \H3086>>, <<\H30E8, \H3088>>,
      <<\H30E9, \H3089>>, <<\H30EA, \H308A>>, <<\H30EB, \H308B>>, <<\H30EC, \H308C>>, <<\H30ED, \H308D>>,
      <<\H30EF, \H308F>>, <<\H30F0, \H3090>>, <<\H30F1, \H3091>>, <<\H30F2, \H3092>>, <<\H30F3, \H3093>>,
      <<\H30F4, \H3094>>,
      <<\H30A1, \H3041>>, <<\H30A3, \H3043>>, <<\H30A5, \H3045>>, <<\H30A7, \H3047>>, <<\H30A9, \H3049>>,
      <<\H30F5, \H3095>>, <<\H30F6, \H3096>>,
      <<\H30C3, \H3063>>, <<\H30E3, \H3083>>, <<\H30E5, \H3085>>, <<\H30E7, \H3087>>,
      <<\H30EE, \H308E>>,
      <<\H30FC, \H30FC>>,
      <<\H30FB, \H30FB>>, <<\H3001, \H3001>>, <<\H3002, \H3002>> }

\* str.maketrans(katakana_chart): the character c translated by chart.
translate_char(chart, c) ==
    IF \E p \in chart : p[1] = c
    THEN (CHOOSE p \in chart : p[1] = c)[2]
    ELSE c

\* HuggingFaceDatasetBuilder._katakana_to_hiragana with a chart that lacks
\* the entry of VU (U+30F4).
HuggingFaceDatasetBuilder_katakana_to_hiragana_without_vu(text) ==
    [i \in 1..Len(text) |->
        translate_char(katakana_chart \ {<<\H30F4, \H3094>>}, text[i])]

\* HuggingFaceDatasetBuilder._katakana_to_hiragana:
\* text.translate(translation_table).
HuggingFaceDatasetBuilder_katakana_to_hiragana(text) ==
    [i \in 1..Len(text) |-> translate_char(katakana_chart, text[i])]

---------------------------------------------------------------------------
(* The calls a trainer makes.  A call is drawn once (Init) and one scorer  *)
(* of the batch's task is applied to it.                                   *)

\* Non-empty batches of at most MaxBatch texts.
Batches(texts) == UNION {[1..n -> texts] : n \in 1..MaxBatch}

\* The answer argument for a batch of n: omitted, or a list of at most n
\* references (the empty list included).
AnswerArgs(refs, n) ==
    {None} \cup UNION {{Some(l) : l \in [1..k -> refs]} : k \in 0..n}

\* The three ways a batch reaches a scorer: new interface, old interface with
\* responses=, old interface with completions= (no prompts).
CallsOf(task, question, cs, ans) ==
    { [task |-> task, prompts |-> Some([i \in 1..Len(cs) |-> question]),
       completions |-> Some(cs), answer |-> ans, responses |-> None],
      [task |-> task, prompts |-> None, completions |-> None,
       answer |-> ans, responses |-> Some(cs)],
      [task |-> task, prompts |-> None, completions |-> Some(cs),
       answer |-> ans, responses |-> None] }

Calls(task, question, texts, refs) ==
    UNION { UNION { CallsOf(task, question, cs, ans) :
                    ans \in AnswerArgs(refs, Len(cs)) } :
            cs \in Batches(texts) }

\* Completions of a particle batch: a well-formed completion answering ga with a grammar explanation,
\* a well-formed one answering wo, one without an answer block, one
\* without the opening reasoning tag answering the list form [ga].
ParticleTexts ==
    { 
      <<"<reasoning>", "lq", "ga", "rq", "ha", "u4e3b", "u8a9e", "wo", "u793a", "su", "</reasoning>", "<answer>", "ga", "</answer>">>,
      <<"<reasoning>", "x", "</reasoning>", "<answer>", " ", "wo", "</answer>", "\n">>,
      <<"<reasoning>", "x", "</reasoning>">>,
      <<"x", "</reasoning>", "<answer>", "[", "ga", "]", "</answer>">> }

\* References of a particle batch: ga, a full solution whose answer block holds ga, ha, the list
\* form [ga].
ParticleRefs ==
    { <<"ga">>,
      <<"<reasoning>", "x", "</reasoning>", "<answer>", "ga", "</answer>">>,
      <<"ha">>, <<"[", "ga", "]">> }

ParticleQuestion == <<"u79c1", "_", "u5b66", "u751f", "de", "su">>

ParticleCalls == Calls("particle", ParticleQuestion, ParticleTexts, ParticleRefs)

\* Completions of a keigo batch: a well-formed completion answering mairu (kenjogo of iku) with an
\* explanation, a well-formed one answering irassharu (sonkeigo of
\* iku), one without an answer block, one without the opening
\* reasoning tag answering itasu (kenjogo of suru), a well-formed
\* one answering the letter x.
KeigoTexts ==
    { 
      <<"<reasoning>", "u8b19", "u8b72", "u8a9e", "na", "no", "de", "lq", "u53c2", "ru", "rq", "</reasoning>", "<answer>", "u53c2", "ru", "</answer>">>,
      <<"<reasoning>", "x", "</reasoning>", "<answer>", "ii", "ra", "xtu", "si", "xya", "ru", "</answer>">>,
      <<"<reasoning>", "x", "</reasoning>">>,
      <<"x", "</reasoning>", "<answer>", "ii", "ta", "su", "</answer>">>,
      <<"<reasoning>", "x", "</reasoning>", "<answer>", "x", "</answer>">> }

\* References of a keigo batch: mairu, a full solution whose answer block holds ukagau, itasu.
KeigoRefs ==
    { <<"u53c2", "ru">>,
      <<"<reasoning>", "x", "</reasoning>", "<answer>", "u4f3a", "uu", "</answer>">>,
      <<"ii", "ta", "su">> }

KeigoQuestion == <<"lq", "u884c", "ku", "rq", "wo", "u8b19", "u8b72", "u8a9e", "ni">>

KeigoCalls == Calls("keigo", KeigoQuestion, KeigoTexts, KeigoRefs)

\* Completions of a counter batch: a well-formed completion answering 3-hon with an explanation, a
\* well-formed one answering the bare number 12, one without an
\* answer block, one without the opening reasoning tag answering
\* 2-hon.
CounterTexts ==
    { 
      <<"<reasoning>", "u52a9", "u6570", "u8a5e", "lq", "u672c", "rq", "ha", "u7d30", "u9577", "ii", "u7269", "wo", "u6570", "ee", "ru", "</reasoning>", "<answer>", "3", "u672c", "</answer>">>,
      <<"<reasoning>", "x", "</reasoning>", "<answer>", "1", "2", "</answer>">>,
      <<"<reasoning>", "x", "</reasoning>">>,
      <<"x", "</reasoning>", "<answer>", "2", "u672c", "</answer>">> }

\* References of a counter batch: 3-hon, 1-hon, 3-mai, a full solution whose answer block holds
\* 3-hon.
CounterRefs ==
    { <<"3", "u672c">>, <<"1", "u672c">>, <<"3", "u679a">>,
      <<"<reasoning>", "x", "</reasoning>", "<answer>", "3", "u672c", "</answer>">> }

CounterQuestion == <<"u925b", "u7b46", "ga", "3", "_", "aa", "ri", "ma", "su">>

CounterCalls == Calls("counter", CounterQuestion, CounterTexts, CounterRefs)

\* Completions of a kanji batch: a well-formed completion answering the kanji for day with an
\* explanation, a well-formed one answering the kanji for eye, one
\* without an answer block, one without the opening reasoning tag
\* answering the reading nichi.
KanjiTexts ==
    { 
      <<"<reasoning>", "ko", "no", "u6f22", "u5b57", "ha", "u4e00", "u5e74", "u751f", "de", "u7fd2", "uu", "</reasoning>", "<answer>", "u65e5", "</answer>">>,
      <<"<reasoning>", "x", "</reasoning>", "<answer>", "u76ee", "</answer>">>,
      <<"<reasoning>", "x", "</reasoning>">>,
      <<"x", "</reasoning>", "<answer>", "ni", "ti", "</answer>">> }

\* References of a kanji batch: day, a full solution whose answer block holds day, month.
KanjiRefs ==
    { <<"u65e5">>,
      <<"<reasoning>", "x", "</reasoning>", "<answer>", "u65e5", "</answer>">>,
      <<"u6708">> }

KanjiQuestion == <<"lq", "u65e5", "rq", "ha", "u4f55", "u5e74", "u751f">>

KanjiCalls == Calls("kanji", KanjiQuestion, KanjiTexts, KanjiRefs)

\* Completions of a word_order batch: a well-formed completion answering the sentence with an
\* explanation, a well-formed one with two words exchanged, one
\* without an answer block, one without the opening reasoning tag
\* answering the sentence.
WordOrderTexts ==
    { 
      <<"<reasoning>", "u4e3b", "u8a9e", "lq", "u79c1", "ha", "rq", "no", "u9806", "u756a", "</reasoning>", "<answer>", "u79c1", "ha", " ", "u672c", "wo", " ", "u8aad", "mi", "ma", "su", "</answer>">>,
      <<"<reasoning>", "x", "</reasoning>", "<answer>", "u672c", "wo", " ", "u79c1", "ha", " ", "u8aad", "mi", "ma", "su", "</answer>", "\n">>,
      <<"<reasoning>", "x", "</reasoning>">>,
      <<"x", "</reasoning>", "<answer>", "u79c1", "ha", " ", "u672c", "wo", " ", "u8aad", "mi", "ma", "su", "</answer>">> }

\* References of a word_order batch: the sentence, a full solution whose answer block holds it, the
\* sentence with two words exchanged.
WordOrderRefs ==
    { 
      <<"u79c1", "ha", " ", "u672c", "wo", " ", "u8aad", "mi", "ma", "su">>,
      <<"<reasoning>", "x", "</reasoning>", "<answer>", "u79c1", "ha", " ", "u672c", "wo", " ", "u8aad", "mi", "ma", "su", "</answer>">>,
      <<"u672c", "wo", " ", "u79c1", "ha", " ", "u8aad", "mi", "ma", "su">> }

WordOrderQuestion == <<"u8aad", "mi", "ma", "su", " ", "u672c", "wo", " ", "u79c1", "ha">>

WordOrderCalls == Calls("word_order", WordOrderQuestion, WordOrderTexts, WordOrderRefs)

\* Completions of a general batch: a well-formed completion answering day with an explanation, a
\* well-formed one answering nihon with blanks, one without an
\* answer block, one without the opening reasoning tag answering
\* nihongo.
GeneralTexts ==
    { 
      <<"<reasoning>", "ko", "no", "u6f22", "u5b57", "ha", "u4e00", "u5e74", "u751f", "de", "u7fd2", "uu", "u6f22", "u5b57", "de", "touten", "u610f", "u5473", "ha", "d", "a", "y", "de", "su", "</reasoning>", "<answer>", "u65e5", "</answer>">>,
      <<"<reasoning>", "x", "</reasoning>", "<answer>", " ", "u65e5", " ", "u672c", " ", "</answer>", "\n">>,
      <<"<reasoning>", "x", "</reasoning>">>,
      <<"x", "</reasoning>", "<answer>", "u65e5", "u672c", "u8a9e", "</answer>">> }

\* References of a general batch: day, a full solution whose answer block holds day, nihon.
GeneralRefs ==
    { <<"u65e5">>,
      <<"<reasoning>", "x", "</reasoning>", "<answer>", "u65e5", "</answer>">>,
      <<"u65e5", "u672c">> }

GeneralQuestion == <<"u6f22", "u5b57", "wo", "u66f8", "ku", "\n", "u6b63", "u89e3", ":", " ", "u65e5">>

GeneralCalls == Calls("general", GeneralQuestion, GeneralTexts, GeneralRefs)

\* get_balanced_reward_functions of the five families: the scorers by the
\* name of their call.
get_balanced_reward_functions(task) ==
    CASE task = "particle" ->
             {"particle_strict_format_check",
              "balanced_check_answer",
              "enhanced_particle_quality"}
      [] task = "keigo" ->
             {"keigo_strict_format_check",
              "balanced_check_keigo",
              "enhanced_keigo_quality",
              "check_keigo_type_accuracy"}
      [] task = "counter" ->
             {"counter_strict_format_check",
              "balanced_check_counter",
              "enhanced_counter_quality",
              "check_number_accuracy"}
      [] task = "kanji" ->
             {"kanji_strict_format_check",
              "balanced_check_kanji_answer",
              "enhanced_kanji_quality",
              "check_grade_accuracy"}
      [] task = "word_order" ->
             {"word_order_strict_format_check",
              "balanced_check_word_order",
              "enhanced_word_order_quality",
              "check_particle_preservation"}

get_all_reward_functions ==
    {"match_format_exactly", "match_format_approximately", "check_answer",
     "check_reasoning_quality", "check_word_order_quality", "check_particle_quality",
     "check_counter_quality", "check_keigo_quality"}

\* What the scorer called name returns on the call a and the statistics it
\* leaves; only match_format_exactly and check_answer touch accuracy_stats.
Result(name, a, stats) ==
    CASE name = "particle_strict_format_check" ->
             Outcome(strict_format_check(a), stats)
      [] name = "balanced_check_answer" ->
             Outcome(balanced_check_answer(a), stats)
      [] name = "enhanced_particle_quality" ->
             Outcome(enhanced_particle_quality(a), stats)
      [] name = "keigo_strict_format_check" ->
             Outcome(strict_format_check(a), stats)
      [] name = "balanced_check_keigo" ->
             Outcome(balanced_check_keigo(a), stats)
      [] name = "enhanced_keigo_quality" ->
             Outcome(enhanced_keigo_quality(a), stats)
      [] name = "check_keigo_type_accuracy" ->
             Outcome(check_keigo_type_accuracy(a), stats)
      [] name = "counter_strict_format_check" ->
             Outcome(strict_format_check(a), stats)
      [] name = "balanced_check_counter" ->
             Outcome(balanced_check_counter(a), stats)
      [] name = "enhanced_counter_quality" ->
             Outcome(enhanced_counter_quality(a), stats)
      [] name = "check_number_accuracy" ->
             Outcome(check_number_accuracy(a), stats)
      [] name = "kanji_strict_format_check" ->
             Outcome(strict_format_check(a), stats)
      [] name = "balanced_check_kanji_answer" ->
             Outcome(balanced_check_kanji_answer(a), stats)
      [] name = "enhanced_kanji_quality" ->
             Outcome(enhanced_kanji_quality(a), stats)
      [] name = "check_grade_accuracy" ->
             Outcome(check_grade_accuracy(a), stats)
      [] name = "word_order_strict_format_check" ->
             Outcome(strict_format_check(a), stats)
      [] name = "balanced_check_word_order" ->
             Outcome(balanced_check_word_order(a), stats)
      [] name = "enhanced_word_order_quality" ->
             Outcome(enhanced_word_order_quality(a), stats)
      [] name = "check_particle_preservation" ->
             Outcome(check_particle_preservation(a), stats)
      [] name = "match_format_exactly" -> match_format_exactly(a, stats)
      [] name = "match_format_approximately" ->
             Outcome(match_format_approximately(a), stats)
      [] name = "check_answer" -> check_answer(a, stats)
      [] name = "check_reasoning_quality" ->
             Outcome(check_reasoning_quality(a), stats)
      [] name = "check_word_order_quality" ->
             Outcome(check_word_order_quality(a), stats)
      [] name = "check_particle_quality" ->
             Outcome(check_particle_quality(a), stats)
      [] name = "check_counter_quality" ->
             Outcome(check_counter_quality(a), stats)
      [] name = "check_keigo_quality" ->
             Outcome(check_keigo_quality(a), stats)

NoCall == "none"

Init ==
    /\ fn = NoCall
    /\ args \in ParticleCalls
                \cup KeigoCalls
                \cup CounterCalls
                \cup KanjiCalls
                \cup WordOrderCalls
                \cup GeneralCalls
    /\ ret = Returned(<<>>)
    /\ accuracy_stats = EmptyStats
    /\ config = DefaultConfig

\* One scorer of the task's family is applied to the drawn call.
Apply(task, name, out) ==
    /\ fn = NoCall
    /\ args.task = task
    /\ fn' = name
    /\ ret' = out.ret
    /\ accuracy_stats' = out.stats
    /\ UNCHANGED <<args, config>>

Call_particle_strict_format_check ==
    Apply("particle", "particle_strict_format_check",
          Outcome(strict_format_check(args), accuracy_stats))

Call_balanced_check_answer ==
    Apply("particle", "balanced_check_answer",
          Outcome(balanced_check_answer(args), accuracy_stats))

Call_enhanced_particle_quality ==
    Apply("particle", "enhanced_particle_quality",
          Outcome(enhanced_particle_quality(args), accuracy_stats))

Call_keigo_strict_format_check ==
    Apply("keigo", "keigo_strict_format_check",
          Outcome(strict_format_check(args), accuracy_stats))

Call_balanced_check_keigo ==
    Apply("keigo", "balanced_check_keigo",
          Outcome(balanced_check_keigo(args), accuracy_stats))

Call_enhanced_keigo_quality ==
    Apply("keigo", "enhanced_keigo_quality",
          Outcome(enhanced_keigo_quality(args), accuracy_stats))

Call_check_keigo_type_accuracy ==
    Apply("keigo", "check_keigo_type_accuracy",
          Outcome(check_keigo_type_accuracy(args), accuracy_stats))

Call_counter_strict_format_check ==
    Apply("counter", "counter_strict_format_check",
          Outcome(strict_format_check(args), accuracy_stats))

Call_balanced_check_counter ==
    Apply("counter", "balanced_check_counter",
          Outcome(balanced_check_counter(args), accuracy_stats))

Call_enhanced_counter_quality ==
    Apply("counter", "enhanced_counter_quality",
          Outcome(enhanced_counter_quality(args), accuracy_stats))

Call_check_number_accuracy ==
    Apply("counter", "check_number_accuracy",
          Outcome(check_number_accuracy(args), accuracy_stats))

Call_kanji_strict_format_check ==
    Apply("kanji", "kanji_strict_format_check",
          Outcome(strict_format_check(args), accuracy_stats))

Call_balanced_check_kanji_answer ==
    Apply("kanji", "balanced_check_kanji_answer",
          Outcome(balanced_check_kanji_answer(args), accuracy_stats))

Call_enhanced_kanji_quality ==
    Apply("kanji", "enhanced_kanji_quality",
          Outcome(enhanced_kanji_quality(args), accuracy_stats))

Call_check_grade_accuracy ==
    Apply("kanji", "check_grade_accuracy",
          Outcome(check_grade_accuracy(args), accuracy_stats))

Call_word_order_strict_format_check ==
    Apply("word_order", "word_order_strict_format_check",
          Outcome(strict_format_check(args), accuracy_stats))

Call_balanced_check_word_order ==
    Apply("word_order", "balanced_check_word_order",
          Outcome(balanced_check_word_order(args), accuracy_stats))

Call_enhanced_word_order_quality ==
    Apply("word_order", "enhanced_word_order_quality",
          Outcome(enhanced_word_order_quality(args), accuracy_stats))

Call_check_particle_preservation ==
    Apply("word_order", "check_particle_preservation",
          Outcome(check_particle_preservation(args), accuracy_stats))

Call_match_format_exactly ==
    Apply("general", "match_format_exactly",
          match_format_exactly(args, accuracy_stats))

Call_match_format_approximately ==
    Apply("general", "match_format_approximately",
          Outcome(match_format_approximately(args), accuracy_stats))

Call_check_answer ==
    Apply("general", "check_answer",
          check_answer(args, accuracy_stats))

Call_check_reasoning_quality ==
    Apply("general", "check_reasoning_quality",
          Outcome(check_reasoning_quality(args), accuracy_stats))

Call_check_word_order_quality ==
    Apply("general", "check_word_order_quality",
          Outcome(check_word_order_quality(args), accuracy_stats))

Call_check_particle_quality ==
    Apply("general", "check_particle_quality",
          Outcome(check_particle_quality(args), accuracy_stats))

Call_check_counter_quality ==
    Apply("general", "check_counter_quality",
          Outcome(check_counter_quality(args), accuracy_stats))

Call_check_keigo_quality ==
    Apply("general", "check_keigo_quality",
          Outcome(check_keigo_quality(args), accuracy_stats))

Next ==
    \/ Call_particle_strict_format_check
    \/ Call_balanced_check_answer
    \/ Call_enhanced_particle_quality
    \/ Call_keigo_strict_format_check
    \/ Call_balanced_check_keigo
    \/ Call_enhanced_keigo_quality
    \/ Call_check_keigo_type_accuracy
    \/ Call_counter_strict_format_check
    \/ Call_balanced_check_counter
    \/ Call_enhanced_counter_quality
    \/ Call_check_number_accuracy
    \/ Call_kanji_strict_format_check
    \/ Call_balanced_check_kanji_answer
    \/ Call_enhanced_kanji_quality
    \/ Call_check_grade_accuracy
    \/ Call_word_order_strict_format_check
    \/ Call_balanced_check_word_order
    \/ Call_enhanced_word_order_quality
    \/ Call_check_particle_preservation
    \/ Call_match_format_exactly
    \/ Call_match_format_approximately
    \/ Call_check_answer
    \/ Call_check_reasoning_quality
    \/ Call_check_word_order_quality
    \/ Call_check_particle_quality
    \/ Call_check_counter_quality
    \/ Call_check_keigo_quality

Spec == Init /\ [][Next]_vars

---------------------------------------------------------------------------
(* Properties of a call.  A state after a call holds the call (args), the  *)
(* scorer (fn) and what it returned (ret).                                 *)

FamilyTasks == {"particle", "keigo", "counter", "kanji", "word_order"}

\* The scorers of the five families' get_balanced_reward_functions lists.
FamilyScorers == UNION {get_balanced_reward_functions(task) : task \in FamilyTasks}

\* The answer-correctness function of each family, and check_answer.
FamilyAnswerScorers ==
    {"balanced_check_answer", "balanced_check_keigo", "balanced_check_counter",
     "balanced_check_kanji_answer", "balanced_check_word_order"}

AnswerScorers == FamilyAnswerScorers \cup {"check_answer"}

\* A scorer was called in the new convention (prompts, completions, answer).
NewCall == fn # NoCall /\ NewInterface(args)

\* The completions of a new-convention call and their number N.
Completions == Val(args.completions)
BatchSize == Len(Completions)

\* What the Format Matcher extracts from completion i, and that answer.
Extracted(i) == match_format(Completions[i])
HasGuess(i) == ~IsNone(Extracted(i))
Guess(i) == Strip(Val(Extracted(i)))

\* The reference list is given, and has k elements.
AnswerGiven == ~IsNone(args.answer)
AnswerLen == Len(Val(args.answer))

\* One plain reference (not wrapped in a full solution) per completion.
PlainRefs ==
    /\ AnswerGiven
    /\ AnswerLen = BatchSize
    /\ \A i \in 1..AnswerLen : ~HasAnswerTag(Val(args.answer)[i])

Ref(i) == Val(args.answer)[i]

\* The call returned one score per completion.
ScoredAll == ~ret.raised /\ Len(ret.scores) = BatchSize

\* C1: every scorer, called with N completions and a reference argument that
\* is omitted, a one-element list, a list of length N or a list of length k
\* with 1 < k < N, returns a list of exactly N scores.
C1_ScoreListOfBatchLength ==
    (NewCall /\ (~AnswerGiven \/ AnswerLen >= 1)) => ScoredAll

\* The missing-format penalty of an answer-correctness function.
missing_format_penalty(name) ==
    IF name = "check_answer" THEN Tenths(-20) ELSE Tenths(-30)

\* C2: for every completion from which the Format Matcher extracts no
\* answer, each answer-correctness function returns its fixed missing-format
\* penalty whatever the reference is (omitted, one reference, one reference
\* per completion; plain or a full solution), and that penalty is strictly
\* lower than every score it returns for a completion with an answer.
C2_MissingFormatPenalty ==
    (NewCall /\ fn \in AnswerScorers
       /\ (~AnswerGiven \/ AnswerLen \in {1, BatchSize})) =>
        \A i \in 1..BatchSize :
            ~HasGuess(i) =>
                /\ ~ret.raised
                /\ i <= Len(ret.scores)
                /\ ret.scores[i] = missing_format_penalty(fn)
                /\ \A j \in 1..Len(ret.scores) :
                       HasGuess(j) => ret.scores[i] < ret.scores[j]

\* C3: when the extracted answer and the reference are the same string, a
\* family's answer-correctness function returns its maximum score: every
\* identical pair of a batch gets one and the same score, and no pair of the
\* batch gets more.  The list-form particle string [ga] is among the
\* references.
C3_IdenticalPairsScoreMaximum ==
    (NewCall /\ fn \in FamilyAnswerScorers /\ PlainRefs /\ ScoredAll) =>
        \A i \in 1..BatchSize :
            (HasGuess(i) /\ Guess(i) = Ref(i)) =>
                \A j \in 1..BatchSize :
                    /\ ret.scores[i] >= ret.scores[j]
                    /\ (HasGuess(j) /\ Guess(j) = Ref(j)) =>
                           ret.scores[i] = ret.scores[j]

\* The call of the same scorer with completion i alone and the same
\* reference argument.
SingleCall(i) ==
    [args EXCEPT !.prompts = Some(<<Val(args.prompts)[i]>>),
                 !.completions = Some(<<Completions[i]>>)]

\* C4: for every scorer of a family's get_balanced_reward_functions list, a
\* call with N completions and the one-element reference list [r] yields at
\* every index i the score of the call with completion i alone and [r].
C4_BroadcastEqualsSingleCalls ==
    (NewCall /\ fn \in FamilyScorers /\ AnswerGiven /\ AnswerLen = 1) =>
        /\ ScoredAll
        /\ \A i \in 1..BatchSize :
               Result(fn, SingleCall(i), EmptyStats).ret
                   = Returned(<<ret.scores[i]>>)

\* C5: no scorer raises because of the shape of its reference argument: with
\* the reference omitted, empty or shorter than the batch, every scorer
\* returns a score list.
C5_NoRaiseOnReferenceShape ==
    (NewCall /\ (~AnswerGiven \/ AnswerLen < BatchSize)) => ~ret.raised

\* A scorer was called in the legacy convention: no prompts, the model
\* outputs passed as responses or as completions.
LegacyCall == fn # NoCall /\ IsNone(args.prompts)

LegacyTexts ==
    IF ~IsNone(args.responses) THEN Val(args.responses) ELSE Val(args.completions)

QuestionOf(task) ==
    CASE task = "particle" -> ParticleQuestion
      [] task = "keigo" -> KeigoQuestion
      [] task = "counter" -> CounterQuestion
      [] task = "kanji" -> KanjiQuestion
      [] task = "word_order" -> WordOrderQuestion
      [] task = "general" -> GeneralQuestion

\* The new-convention call for the same texts and the same references.
NewConvention ==
    [task |-> args.task,
     prompts |-> Some([i \in 1..Len(LegacyTexts) |-> QuestionOf(args.task)]),
     completions |-> Some(LegacyTexts),
     answer |-> args.answer,
     responses |-> None]

\* C6: a scorer called in the legacy convention, with one plain reference
\* per response, returns one score per response, each equal to the score of
\* the new convention for the same text and the same reference.
C6_LegacyEqualsNewConvention ==
    (LegacyCall /\ AnswerGiven /\ AnswerLen = Len(LegacyTexts)
       /\ \A i \in 1..AnswerLen : ~HasAnswerTag(Val(args.answer)[i])) =>
        /\ ~ret.raised
        /\ Len(ret.scores) = Len(LegacyTexts)
        /\ ret = Result(fn, NewConvention, EmptyStats).ret

\* A call of the keigo answer scorer with one plain reference per completion
\* that returned one score per completion.
KeigoAnswerCall ==
    NewCall /\ fn = "balanced_check_keigo" /\ PlainRefs /\ ScoredAll

KeigoForms(base) == sonkeigo_options[base] \cup kenjogo_options[base]

\* g is the sonkeigo of a verb whose kenjogo is r, or the reverse.
OppositeCategory(g, r) ==
    \E base \in KeigoBases :
        \/ r \in kenjogo_options[base] /\ g \in sonkeigo_options[base]
        \/ r \in sonkeigo_options[base] /\ g \in kenjogo_options[base]

\* g is wrong and has nothing to do with r: no honorific form of a verb that
\* r is a form of, no polite variation of r, no stem in common with r.
UnrelatedWrong(g, r) ==
    /\ g # r
    /\ \A base \in KeigoBases : ~(g \in KeigoForms(base) /\ r \in KeigoForms(base))
    /\ ~_is_polite_variation(g, r)
    /\ ~_is_partially_correct(g, r)

\* C7: in the keigo answer scorer an answer in the opposite honorific
\* category to the reference (same base verb) scores strictly lower than an
\* answer that is wrong and unrelated to the reference.
C7_ConfusionBelowUnrelated ==
    KeigoAnswerCall =>
        \A i, j \in 1..BatchSize :
            ( /\ HasGuess(i) /\ OppositeCategory(Guess(i), Ref(i))
              /\ HasGuess(j) /\ UnrelatedWrong(Guess(j), Ref(j)) ) =>
                ret.scores[i] < ret.scores[j]

IsKenjogo(w) == \E base \in KeigoBases : w \in kenjogo_options[base]

\* g is a sonkeigo form of a verb whose kenjogo form is r.
SonkeigoFor(g, r) ==
    \E base \in KeigoBases :
        r \in kenjogo_options[base] /\ g \in sonkeigo_options[base]

\* C8: in the keigo answer scorer, for a kenjogo reference, a sonkeigo answer
\* substituted for it scores strictly lower than every answer that differs
\* from the reference and is, like it, a kenjogo form.
C8_SonkeigoBelowSameCategory ==
    KeigoAnswerCall =>
        \A i, j \in 1..BatchSize :
            ( /\ Ref(i) = Ref(j) /\ IsKenjogo(Ref(i))
              /\ HasGuess(i) /\ SonkeigoFor(Guess(i), Ref(i))
              /\ HasGuess(j) /\ Guess(j) # Ref(j) /\ IsKenjogo(Guess(j)) ) =>
                ret.scores[i] < ret.scores[j]

\* A call of the counter answer scorer with one plain reference per
\* completion that returned one score per completion.
CounterAnswerCall ==
    NewCall /\ fn = "balanced_check_counter" /\ PlainRefs /\ ScoredAll

\* The leading numeral of a text and the counter suffix after it.
LeadingNumeral(text) == Slice(text, 1, NumeralPrefixLen(text))
CounterSuffix(text) == Slice(text, NumeralPrefixLen(text) + 1, Len(text))

NumeralsDiffer(i) ==
    HasGuess(i) /\ LeadingNumeral(Guess(i)) # LeadingNumeral(Ref(i))

OnlyCountersDiffer(i) ==
    /\ HasGuess(i)
    /\ LeadingNumeral(Guess(i)) = LeadingNumeral(Ref(i))
    /\ CounterSuffix(Guess(i)) # CounterSuffix(Ref(i))

\* 3: the counters are of the same category, 2: of related categories,
\* 1: of unrelated categories, 0: a counter of no known category.
CategoryRelation(g, r) ==
    LET cg == counter_to_category(CounterSuffix(g))
        cr == counter_to_category(CounterSuffix(r))
    IN  IF IsNone(cg) \/ IsNone(cr) THEN 0
        ELSE IF cg = cr THEN 3
        ELSE IF _are_related_categories(Val(cg), Val(cr)) THEN 2
        ELSE 1

\* C9: in the counter answer scorer, answers whose leading numeral differs
\* from the reference's all get one value, whatever the counters, strictly
\* below every score of an answer with the same numeral and another counter;
\* among the latter, same category > related category > unrelated category.
C9_NumeralMismatchLowest ==
    CounterAnswerCall =>
        \A i, j \in 1..BatchSize :
            /\ (NumeralsDiffer(i) /\ NumeralsDiffer(j)) =>
                   ret.scores[i] = ret.scores[j]
            /\ (NumeralsDiffer(i) /\ OnlyCountersDiffer(j)) =>
                   ret.scores[i] < ret.scores[j]
            /\ ( /\ OnlyCountersDiffer(i) /\ OnlyCountersDiffer(j)
                 /\ CategoryRelation(Guess(j), Ref(j)) > 0
                 /\ CategoryRelation(Guess(i), Ref(i))
                        > CategoryRelation(Guess(j), Ref(j)) ) =>
                   ret.scores[i] > ret.scores[j]

\* A call of the particle answer scorer with one plain single-particle
\* reference (not the list form) per completion.
SingleParticleCall ==
    /\ NewCall /\ fn = "balanced_check_answer" /\ PlainRefs
    /\ \A i \in 1..BatchSize : ~IsBracketed(Ref(i))

\* The answer is a particle of the reference's grammatical-function group.
SameGroup(g, r) == r \in similar_particles_keys /\ g \in similar_particles(r)

\* 4: exact match, 3: a particle of the reference's group, 2: another known
\* particle, 1: no known particle, 0: no answer block.
ParticleRank(i) ==
    IF ~HasGuess(i) THEN 0
    ELSE IF Guess(i) = Ref(i) THEN 4
    ELSE IF SameGroup(Guess(i), Ref(i)) THEN 3
    ELSE IF Guess(i) \in COMMON_PARTICLES THEN 2
    ELSE 1

\* C10: in the single-particle answer scorer the scores are strictly
\* ordered: exact match > a particle of the reference's group (positive) >
\* any other known particle (negative) > no known particle > no answer block.
C10_SingleParticleOrder ==
    SingleParticleCall =>
        /\ ScoredAll
        /\ \A i \in 1..BatchSize :
               /\ ParticleRank(i) = 3 => ret.scores[i] > 0
               /\ ParticleRank(i) = 2 => ret.scores[i] < 0
               /\ \A j \in 1..BatchSize :
                      ParticleRank(i) > ParticleRank(j) =>
                          ret.scores[i] > ret.scores[j]

\* The single-particle scorer ordered a same-group particle against another
\* known particle in one batch.
C10_Witness ==
    /\ SingleParticleCall
    /\ BatchSize = 2
    /\ ParticleRank(1) = 3
    /\ ParticleRank(2) = 2
    /\ ret.scores[1] > 0
    /\ ret.scores[2] < 0

---------------------------------------------------------------------------
(* The Format Matcher on its own.  One completion, assembled from markers, *)
(* answers, other text and whitespace, is scored by the format scorers and *)
(* by the particle answer scorer of an instance built with or without an   *)
(* end-of-sequence token.                                                  *)

\* Largest number of answer blocks in a completion.
MaxBlocks == 2

\* Largest number of characters after the last answer block.
MaxTail == 2

\* An instance with an end-of-sequence token configured.
EosConfig == [DefaultConfig EXCEPT !.eos_token = "<eos>"]

\* What a completion starts with: nothing, a reasoning-close marker, a
\* reasoning block, a reasoning block closed twice.
FormatHeads ==
    {<<>>, <<"</reasoning>">>, <<"<reasoning>", "x", "</reasoning>">>,
     <<"<reasoning>", "x", "</reasoning>", "</reasoning>">>}

\* An answer block after nothing, a letter or a newline, or an answer block
\* with one marker missing.
FormatBlocks ==
    {gap \o <<"<answer>", "ga", "</answer>">> : gap \in {<<>>, <<"x">>, <<"\n">>}}
        \cup {<<"<answer>", "ga">>, <<"ga", "</answer>">>}

\* What follows the last block.
FormatTails ==
    UNION {[1..n -> {"x", " ", "\n", "<eos>"}] : n \in 0..MaxTail}

RECURSIVE Concat(_)
Concat(ss) == IF ss = <<>> THEN <<>> ELSE Head(ss) \o Concat(Tail(ss))

FormatTexts ==
    {h \o Concat(bs) \o t :
        h \in FormatHeads,
        bs \in UNION {[1..n -> FormatBlocks] : n \in 0..MaxBlocks},
        t \in FormatTails}

FormatCalls ==
    {[task |-> task, prompts |-> Some(<<ParticleQuestion>>),
      completions |-> Some(<<text>>), answer |-> Some(<<<<"ga">>>>),
      responses |-> None] : task \in {"general", "particle"},
                            text \in FormatTexts}

FormatInit ==
    /\ fn = NoCall
    /\ args \in FormatCalls
    /\ ret = Returned(<<>>)
    /\ accuracy_stats = EmptyStats
    /\ config \in {DefaultConfig, EosConfig}

FormatNext ==
    \/ Call_match_format_exactly
    \/ Call_match_format_approximately
    \/ Call_balanced_check_answer

FormatSpec == FormatInit /\ [][FormatNext]_vars

\* A scorer that uses the Format Matcher was called on one completion.
MatcherCall ==
    /\ NewCall
    /\ BatchSize = 1
    /\ fn \in {"match_format_exactly", "balanced_check_answer"}

\* After position e of the text only whitespace and the configured
\* end-of-sequence token remain.
OnlyBlankAfter(text, e) ==
    \A j \in (e + 1)..Len(text) :
        IsSpace(text[j]) \/ (eos_token # "" /\ text[j] = eos_token)

\* The text holds the block  answer-open, content, answer-close  with the
\* answer-close marker at e.
BlockEndsAt(text, content, e) ==
    /\ e - Len(content) - 1 >= 1
    /\ e <= Len(text)
    /\ text[e] = solution_end
    /\ text[e - Len(content) - 1] = solution_start
    /\ Slice(text, e - Len(content), e - 1) = content

\* C11: the Format Matcher extracts an answer only if, after the
\* answer-close marker that ends the extracted answer, nothing but
\* whitespace and the configured end-of-sequence token remains up to the end
\* of the whole text; match_format_exactly then scores 1.0 only for such a
\* text.
C11_OnlyBlankAfterAnswer ==
    MatcherCall =>
        ( /\ HasGuess(1) =>
                \E e \in 1..Len(Completions[1]) :
                    /\ BlockEndsAt(Completions[1], Val(Extracted(1)), e)
                    /\ OnlyBlankAfter(Completions[1], e)
          /\ (fn = "match_format_exactly" /\ ~ret.raised
                 /\ ret.scores = <<Tenths(10)>>) => HasGuess(1) )

\* The first position after p that holds the marker, or 0.
NextMarker(text, marker, p) ==
    IF \E i \in (p + 1)..Len(text) : text[i] = marker
    THEN CHOOSE i \in (p + 1)..Len(text) :
            text[i] = marker /\ \A j \in (p + 1)..(i - 1) : text[j] # marker
    ELSE 0

\* The text between the first answer-open marker after the first
\* reasoning-close marker and the next answer-close marker.
FirstAnswerBlock(text) ==
    LET p == NextMarker(text, reasoning_end, 0)
        a == IF p = 0 THEN 0 ELSE NextMarker(text, solution_start, p)
        e == IF a = 0 THEN 0 ELSE NextMarker(text, solution_end, a)
    IN  IF e = 0 THEN None ELSE Some(Slice(text, a + 1, e - 1))

\* C12: whenever the Format Matcher extracts an answer, it is exactly the
\* text between the first answer-open marker after the reasoning-close
\* marker and the next answer-close marker, and so holds neither marker,
\* also when the completion holds several answer blocks; the particle answer
\* scorer then gives a first block that holds the reference the exact-match
\* score.
C12_ExtractsFirstAnswerBlock ==
    (MatcherCall /\ HasGuess(1)) =>
        /\ Extracted(1) = FirstAnswerBlock(Completions[1])
        /\ ~HasToken(Val(Extracted(1)), solution_start)
        /\ ~HasToken(Val(Extracted(1)), solution_end)
        /\ ( /\ fn = "balanced_check_answer"
             /\ FirstAnswerBlock(Completions[1]) = Some(Val(args.answer)[1]) ) =>
                ret = Returned(<<Tenths(20)>>)

\* How often the marker occurs in the text.
RECURSIVE Occurrences(_, _)
Occurrences(text, marker) ==
    IF text = <<>> THEN 0
    ELSE (IF Head(text) = marker THEN 1 ELSE 0) + Occurrences(Tail(text), marker)

\* +0.25 for a marker that occurs exactly once, -0.5 otherwise.
MarkerCredit(text, marker) ==
    IF Occurrences(text, marker) = 1 THEN Unit \div 4 ELSE -(Unit \div 2)

ApproximateCall == NewCall /\ fn = "match_format_approximately"

\* C13: match_format_approximately returns, for every text, the sum over the
\* markers reasoning-close, answer-open and answer-close of +0.25 when the
\* marker occurs exactly once and -0.5 otherwise: 0.75 for a text with
\* exactly one of each.
C13_ApproximateMarkerCredits ==
    ApproximateCall =>
        /\ ScoredAll
        /\ \A i \in 1..BatchSize :
               /\ ret.scores[i] = MarkerCredit(Completions[i], "</reasoning>")
                                    + MarkerCredit(Completions[i], "<answer>")
                                    + MarkerCredit(Completions[i], "</answer>")
               /\ ( /\ Occurrences(Completions[i], "</reasoning>") = 1
                    /\ Occurrences(Completions[i], "<answer>") = 1
                    /\ Occurrences(Completions[i], "</answer>") = 1 ) =>
                      4 * ret.scores[i] = 3 * Unit

\* match_format_approximately scored a text with one reasoning-close marker,
\* one answer-close marker and the answer-open marker twice: 0.25 - 0.5 +
\* 0.25.
C13_Witness ==
    /\ ApproximateCall
    /\ ScoredAll
    /\ BatchSize = 1
    /\ Occurrences(Completions[1], "</reasoning>") = 1
    /\ Occurrences(Completions[1], "<answer>") = 2
    /\ Occurrences(Completions[1], "</answer>") = 1
    /\ ret.scores[1] = 0

---------------------------------------------------------------------------
(* Configured tags.  A default instance scores a counter call; a second    *)
(* instance of the same class, built with four tags of its own, then       *)
(* scores the same call written with those tags.                           *)

\* An instance built with its own four tag strings.
CustomConfig ==
    [reasoning_start |-> "<think>", reasoning_end |-> "</think>",
     solution_start |-> "<result>", solution_end |-> "</result>",
     eos_token |-> ""]

\* A text written with the tags of cfg in place of the default tags.
Written(text, cfg) ==
    [i \in 1..Len(text) |->
        CASE text[i] = DefaultConfig.reasoning_start -> cfg.reasoning_start
          [] text[i] = DefaultConfig.reasoning_end -> cfg.reasoning_end
          [] text[i] = DefaultConfig.solution_start -> cfg.solution_start
          [] text[i] = DefaultConfig.solution_end -> cfg.solution_end
          [] OTHER -> text[i]]

WrittenAll(texts, cfg) == [i \in 1..Len(texts) |-> Written(texts[i], cfg)]

\* The call a with its completions and its references written with the tags
\* of cfg.
Rewritten(a, cfg) ==
    [a EXCEPT !.completions = Some(WrittenAll(Val(a.completions), cfg)),
              !.answer = IF IsNone(a.answer) THEN None
                         ELSE Some(WrittenAll(Val(a.answer), cfg))]

TagInit ==
    /\ fn = NoCall
    /\ args \in {a \in CounterCalls : NewInterface(a)}
    /\ ret = Returned(<<>>)
    /\ accuracy_stats = EmptyStats
    /\ config = DefaultConfig

\* A second instance is built with CustomConfig and the call is written
\* with its tags; ret still holds what the default instance returned.
Rebuild ==
    /\ fn # NoCall
    /\ config = DefaultConfig
    /\ config' = CustomConfig
    /\ args' = Rewritten(args, CustomConfig)
    /\ accuracy_stats' = EmptyStats
    /\ UNCHANGED <<fn, ret>>

\* The rebuilt instance scores the rewritten call with the same scorer.
Rescore(name, result) ==
    /\ fn = name
    /\ config = CustomConfig
    /\ ret' = result
    /\ UNCHANGED <<fn, args, accuracy_stats, config>>

Rescore_counter_strict_format_check ==
    Rescore("counter_strict_format_check", strict_format_check(args))

Rescore_balanced_check_counter ==
    Rescore("balanced_check_counter", balanced_check_counter(args))

Rescore_enhanced_counter_quality ==
    Rescore("enhanced_counter_quality", enhanced_counter_quality(args))

Rescore_check_number_accuracy ==
    Rescore("check_number_accuracy", check_number_accuracy(args))

TagNext ==
    \/ Call_counter_strict_format_check
    \/ Call_balanced_check_counter
    \/ Call_enhanced_counter_quality
    \/ Call_check_number_accuracy
    \/ Rebuild
    \/ Rescore_counter_strict_format_check
    \/ Rescore_balanced_check_counter
    \/ Rescore_enhanced_counter_quality
    \/ Rescore_check_number_accuracy

TagSpec == TagInit /\ [][TagNext]_vars

\* C14: all four tag strings are honoured: the instance built with custom
\* tags scores a call written with its tags exactly as the default instance
\* scored the same call written with the default tags.
C14_CustomTagsHonoured ==
    [][(fn # NoCall /\ config = CustomConfig /\ config' = CustomConfig)
          => ret' = ret]_vars

---------------------------------------------------------------------------
(* References given bare or as a full tagged solution. *)

\* The bare answer a reference stands for: the content of its answer block
\* when it is a full tagged solution, the reference itself otherwise.
Bare(ref) ==
    IF IsNone(FirstAnswerBlock(ref)) THEN ref ELSE Strip(Val(FirstAnswerBlock(ref)))

\* The call with every reference given bare.
BareCall ==
    [args EXCEPT !.answer =
        Some([i \in 1..AnswerLen |-> Bare(Val(args.answer)[i])])]

SomeRefWrapped ==
    AnswerGiven /\ \E i \in 1..AnswerLen : HasAnswerTag(Val(args.answer)[i])

\* C15: replacing any subset of the bare references by full tagged solutions
\* whose answer block holds them, a list whose first element is bare and a
\* later one wrapped included, leaves every score of every
\* answer-correctness function unchanged: a call with wrapped references
\* returns what the call with all references bare returns.
C15_WrappedReferenceSameScores ==
    (NewCall /\ fn \in AnswerScorers /\ SomeRefWrapped) =>
        ret = Result(fn, BareCall, EmptyStats).ret

---------------------------------------------------------------------------
(* The kanji answer scorer on pairs (extracted answer, reference). *)

\* The pairs of the similar-kanji table, in both directions.
ListedSimilarPairs ==
    UNION {UNION {{<<kanji, s>>, <<s, kanji>>} : s \in SIMILAR_KANJI(kanji)} :
              kanji \in SIMILAR_KANJI_keys}

\* Exact matches, answers that differ from the reference by a voiced mark or
\* a small kana only, and answers that have nothing to do with the
\* reference (a letter, another kanji, a reading in kana).
OtherKanjiPairs ==
    { <<<<"u65e5">>, <<"u65e5">>>>, <<<<"u76ee">>, <<"u76ee">>>>,
      <<<<"ka", "wa">>, <<"ga", "wa">>>>, <<<<"ni", "tu">>, <<"ni", "xtu">>>>,
      <<<<"x">>, <<"u65e5">>>>, <<<<"u5c71">>, <<"u65e5">>>>,
      <<<<"ni", "ti">>, <<"u65e5">>>> }

KanjiPairs == ListedSimilarPairs \cup OtherKanjiPairs

\* A completion that answers g.
Answering(g) ==
    <<"<reasoning>", "x", "</reasoning>", "<answer>">> \o g \o <<"</answer>">>

\* A batch of pairs: the completions answer the first components, the
\* references are the second components.
KanjiPairCalls ==
    {[task |-> "kanji", prompts |-> Some([i \in 1..Len(ps) |-> KanjiQuestion]),
      completions |-> Some([i \in 1..Len(ps) |-> Answering(ps[i][1])]),
      answer |-> Some([i \in 1..Len(ps) |-> ps[i][2]]),
      responses |-> None] :
        ps \in UNION {[1..n -> KanjiPairs] : n \in 1..MaxBatch}}

KanjiPairInit ==
    /\ fn = NoCall
    /\ args \in KanjiPairCalls
    /\ ret = Returned(<<>>)
    /\ accuracy_stats = EmptyStats
    /\ config = DefaultConfig

KanjiPairNext == Call_balanced_check_kanji_answer

KanjiPairSpec == KanjiPairInit /\ [][KanjiPairNext]_vars

\* A call of the kanji answer scorer with one plain reference per completion
\* that returned one score per completion.
KanjiAnswerCall ==
    NewCall /\ fn = "balanced_check_kanji_answer" /\ PlainRefs /\ ScoredAll

\* The pair is listed in the similar-kanji table, in either direction.
ListedSimilar(g, r) ==
    \E kanji \in SIMILAR_KANJI_keys :
        \/ r = kanji /\ g \in SIMILAR_KANJI(kanji)
        \/ g = kanji /\ r \in SIMILAR_KANJI(kanji)

\* g is a kana reading that differs from the kana reading r only by what the
\* scorer accepts as the same reading.
ReadingEquivalent(g, r) == g # r /\ _is_reading_partially_correct(g, r)

\* g is wrong and is related to r by no table and by no common character.
CompletelyWrong(g, r) ==
    /\ g # r
    /\ NFKC(g) # NFKC(r)
    /\ ~_is_reading_partially_correct(g, r)
    /\ ~_is_similar_kanji(g, r)
    /\ ~_is_similar_sound(g, r)
    /\ \A c \in Range(g) : c \notin Range(r)
    /\ ~_is_semantically_related(g, r)

\* C16: in the kanji answer scorer every pair listed as visually similar in
\* the similar-kanji table, in either direction, scores strictly below an
\* exact match, strictly above a completely wrong answer and strictly below
\* the reading-equivalence credit.
C16_SimilarKanjiBetween ==
    KanjiAnswerCall =>
        \A i, j \in 1..BatchSize :
            (HasGuess(i) /\ HasGuess(j) /\ ListedSimilar(Guess(i), Ref(i))) =>
                /\ Guess(j) = Ref(j) => ret.scores[i] < ret.scores[j]
                /\ CompletelyWrong(Guess(j), Ref(j)) => ret.scores[i] > ret.scores[j]
                /\ ReadingEquivalent(Guess(j), Ref(j)) => ret.scores[i] < ret.scores[j]

\* The kanji answer scorer scored a pair listed from its second component
\* (the reference is the listed neighbour, the answer the table's key) next
\* to a completely wrong answer.
C16_Witness ==
    /\ KanjiAnswerCall
    /\ BatchSize = 2
    /\ HasGuess(1) /\ HasGuess(2)
    /\ Guess(1) \in SIMILAR_KANJI_keys
    /\ Ref(1) \in SIMILAR_KANJI(Guess(1))
    /\ CompletelyWrong(Guess(2), Ref(2))
    /\ ret.scores[1] > ret.scores[2]

---------------------------------------------------------------------------
(* The normalization functions on their own.  A string is drawn, and one   *)
(* function is applied to it and then to its own result.  Here args is     *)
(* [task, text], the kind of string and the string, and ret is             *)
(* [value, times], the last result and the number of applications.         *)

\* Largest length of a string.
MaxChars == 3

\* Largest number of applications of a function to its own result.
MaxApplications == 2

\* Strings of numerals and a counter: an ASCII digit, a fullwidth digit, the
\* kanji numerals 3 and 10, the counter hon.
NumberTexts ==
    UNION {[1..n -> {"3", "fw3", "u4e09", "u5341", "u672c"}] : n \in 0..MaxChars}

\* Strings of kana: voiced, unvoiced and half-voiced kana, and a kanji.
KanaTexts ==
    UNION {[1..n -> {"ga", "ka", "pa", "ha", "zi", "u65e5"}] : n \in 0..MaxChars}

\* The characters katakana folding is tried on: the katakana block U+30A0 to
\* U+30FF (the long-vowel mark U+30FC and the middle dot U+30FB in it), the
\* hiragana letters, the ideographic comma and full stop, the Latin letters
\* A and a, a kanji and a halfwidth katakana.
FoldCharacters ==
    (\H30A0..\H30FF) \cup (\H3041..\H3096)
        \cup {\H3001, \H3002, \H41, \H61, \H65E5, \HFF71}

\* Strings of code points: any of the characters, then katakana A, the
\* long-vowel mark and the letter a.
CodePointTexts ==
    {<<>>} \cup
    {<<c>> \o rest :
        c \in FoldCharacters,
        rest \in UNION {[1..n -> {\H30A2, \H30FC, \H61}] : n \in 0..(MaxChars - 1)}}

NormInit ==
    /\ fn = NoCall
    /\ \/ args \in {[task |-> "number", text |-> s] : s \in NumberTexts}
       \/ args \in {[task |-> "kana", text |-> s] : s \in KanaTexts}
       \/ args \in {[task |-> "codepoints", text |-> s] : s \in CodePointTexts}
    /\ ret = [value |-> args.text, times |-> 0]
    /\ accuracy_stats = EmptyStats
    /\ config = DefaultConfig

\* The function called name is applied to the last result.
Normalize(task, name, value) ==
    /\ args.task = task
    /\ fn \in {NoCall, name}
    /\ ret.times < MaxApplications
    /\ fn' = name
    /\ ret' = [value |-> value, times |-> ret.times + 1]
    /\ UNCHANGED <<args, accuracy_stats, config>>

Run_normalize_number ==
    Normalize("number", "_normalize_number", _normalize_number(ret.value))

Run_remove_dakuten ==
    Normalize("kana", "_remove_dakuten", _remove_dakuten(ret.value))

Run_CompleteKanjiTask_katakana_to_hiragana ==
    Normalize("codepoints", "CompleteKanjiTask._katakana_to_hiragana",
              CompleteKanjiTask_katakana_to_hiragana(ret.value))

Run_HuggingFaceDatasetBuilder_katakana_to_hiragana ==
    Normalize("codepoints", "HuggingFaceDatasetBuilder._katakana_to_hiragana",
              HuggingFaceDatasetBuilder_katakana_to_hiragana(ret.value))

NormNext ==
    \/ Run_normalize_number
    \/ Run_remove_dakuten
    \/ Run_CompleteKanjiTask_katakana_to_hiragana
    \/ Run_HuggingFaceDatasetBuilder_katakana_to_hiragana

NormSpec == NormInit /\ [][NormNext]_vars

KatakanaFolds ==
    {"CompleteKanjiTask._katakana_to_hiragana",
     "HuggingFaceDatasetBuilder._katakana_to_hiragana"}

Normalizers == {"_normalize_number", "_remove_dakuten"} \cup KatakanaFolds

\* One application of the function called name.
Once(name, text) ==
    CASE name = "_normalize_number" -> _normalize_number(text)
      [] name = "_remove_dakuten" -> _remove_dakuten(text)
      [] name = "CompleteKanjiTask._katakana_to_hiragana" ->
             CompleteKanjiTask_katakana_to_hiragana(text)
      [] name = "HuggingFaceDatasetBuilder._katakana_to_hiragana" ->
             HuggingFaceDatasetBuilder_katakana_to_hiragana(text)

\* C17: each normalization function (katakana folding, dakuten removal,
\* numeral normalization) is idempotent: applied twice or more to a string
\* it gives what one application gives.
C17_NormalizersIdempotent ==
    (fn \in Normalizers /\ ret.times >= 2) => ret.value = Once(fn, args.text)

\* Dakuten removal was applied twice to a string with a half-voiced kana,
\* which it changed.
C17_Witness ==
    /\ fn = "_remove_dakuten"
    /\ ret.times = 2
    /\ \E i \in 1..Len(args.text) : args.text[i] = "pa" /\ ret.value[i] = "ha"

\* The other implementation of katakana folding.
OtherFold(name, text) ==
    IF name = "CompleteKanjiTask._katakana_to_hiragana"
    THEN HuggingFaceDatasetBuilder_katakana_to_hiragana(text)
    ELSE CompleteKanjiTask_katakana_to_hiragana(text)

\* C18: katakana folding maps every code point of U+30A1..U+30F6 to the code
\* point 0x60 below it and leaves every other character unchanged, and the
\* table-based implementation of the dataset builder and the offset-based
\* one of the kanji task generator return the same result.
C18_KatakanaFoldsAgree ==
    (fn \in KatakanaFolds /\ ret.times = 1) =>
        /\ Len(ret.value) = Len(args.text)
        /\ \A i \in 1..Len(args.text) :
               ret.value[i] = IF args.text[i] \in 12449..12534
                              THEN args.text[i] - 96
                              ELSE args.text[i]
        /\ ret.value = OtherFold(fn, args.text)

\* The table-based folding was applied to a string of katakana VU and the
\* long-vowel mark: hiragana VU, and the mark kept.
C18_Witness ==
    /\ fn = "HuggingFaceDatasetBuilder._katakana_to_hiragana"
    /\ ret.times = 1
    /\ Len(args.text) >= 2
    /\ args.text[1] = \H30F4 /\ ret.value[1] = \H3094
    /\ args.text[2] = \H30FC /\ ret.value[2] = \H30FC

---------------------------------------------------------------------------
(* One instance over several calls.  Before the drawn call, the instance   *)
(* may have scored other batches with match_format_exactly and             *)
(* check_answer, which leave their entries in accuracy_stats.              *)

\* Largest number of entries in accuracy_stats before the last earlier call.
MaxRecorded == 3

\* len of all the lists of accuracy_stats together.
Recorded(stats) ==
    Len(stats.correct_format) + Len(stats.no_answer) + Len(stats.correct_answer)
        + Len(stats.partial_answer) + Len(stats.wrong_answer)

\* The completions of this instance's batches: a well-formed completion
\* answering day, one without an answer block, a well-formed one answering
\* hongo.
HistoryTexts ==
    {<<"<reasoning>", "x", "</reasoning>", "<answer>", "u65e5", "</answer>">>,
     <<"<reasoning>", "x", "</reasoning>">>,
     <<"<reasoning>", "x", "</reasoning>", "<answer>", "u672c", "u8a9e", "</answer>">>}

\* The batches scored earlier, one completion each with the reference day.
HistoryCalls ==
    {[task |-> "general", prompts |-> Some(<<GeneralQuestion>>),
      completions |-> Some(<<text>>), answer |-> Some(<<<<"u65e5">>>>),
      responses |-> None] : text \in HistoryTexts}

\* The calls whose scores are compared.
ComparedCalls == Calls("general", GeneralQuestion, HistoryTexts, {<<"u65e5">>})

HistoryInit ==
    /\ fn = NoCall
    /\ args \in ComparedCalls
    /\ ret = Returned(<<>>)
    /\ accuracy_stats = EmptyStats
    /\ config = DefaultConfig

\* An earlier call of the scorer called name on one of the batches: its
\* scores are gone, its statistics stay.
Earlier(name) ==
    /\ fn = NoCall
    /\ Recorded(accuracy_stats) < MaxRecorded
    /\ \E h \in HistoryCalls :
           accuracy_stats' = Result(name, h, accuracy_stats).stats
    /\ UNCHANGED <<fn, args, ret, config>>

Earlier_match_format_exactly == Earlier("match_format_exactly")

Earlier_check_answer == Earlier("check_answer")

HistoryNext ==
    \/ Earlier_match_format_exactly
    \/ Earlier_check_answer
    \/ Call_match_format_exactly
    \/ Call_check_answer

HistorySpec == HistoryInit /\ [][HistoryNext]_vars

\* C19: the scores of match_format_exactly and check_answer do not depend on
\* the accumulated statistics: whatever the instance scored before, the call
\* returns what an instance without history returns for the same arguments.
C19_ScoresIgnoreStatistics ==
    fn \in {"match_format_exactly", "check_answer"} =>
        ret = Result(fn, args, EmptyStats).ret

\* match_format_exactly scored a batch with a well-formed completion on an
\* instance whose statistics already held a format failure and a wrong
\* answer.
C19_Witness ==
    /\ fn = "match_format_exactly"
    /\ ~ret.raised
    /\ \E i \in 1..Len(ret.scores) : ret.scores[i] = Tenths(10)
    /\ Len(accuracy_stats.correct_format) > Len(ret.scores)
    /\ accuracy_stats.correct_format[1] = 0
    /\ Len(accuracy_stats.wrong_answer) + Len(accuracy_stats.no_answer) > 0

---------------------------------------------------------------------------
(* Answers that differ from the reference in compatibility characters      *)
(* only.  Each family's answer scorer is applied to a batch whose answers  *)
(* are the reference, the reference with a fullwidth digit or an           *)
(* ideographic space in place of the ASCII one, and other answers.         *)

\* Answers of a particle batch: ga ha with an ideographic space, with a space, ha, wo.
VariantParticleTexts ==
    {<<"<reasoning>", "x", "</reasoning>", "<answer>", "ga", "ZSP", "ha", "</answer>">>,
     <<"<reasoning>", "x", "</reasoning>", "<answer>", "ga", " ", "ha", "</answer>">>,
     <<"<reasoning>", "x", "</reasoning>", "<answer>", "ha", "</answer>">>,
     <<"<reasoning>", "x", "</reasoning>", "<answer>", "wo", "</answer>">>}

\* The reference of a particle batch: ga ha with a space.
VariantParticleRef == <<"ga", " ", "ha">>

\* Answers of a keigo batch: mairi masu with an ideographic space, with a space, irassharu, x.
VariantKeigoTexts ==
    {<<"<reasoning>", "x", "</reasoning>", "<answer>", "u53c2", "ri", "ZSP", "ma", "su", "</answer>">>,
     <<"<reasoning>", "x", "</reasoning>", "<answer>", "u53c2", "ri", " ", "ma", "su", "</answer>">>,
     <<"<reasoning>", "x", "</reasoning>", "<answer>", "ii", "ra", "xtu", "si", "xya", "ru", "</answer>">>,
     <<"<reasoning>", "x", "</reasoning>", "<answer>", "x", "</answer>">>}

\* The reference of a keigo batch: mairi masu with a space.
VariantKeigoRef == <<"u53c2", "ri", " ", "ma", "su">>

\* Answers of a counter batch: 3-hon with a fullwidth digit, 3-hon, 3-mai, 2-hon.
VariantCounterTexts ==
    {<<"<reasoning>", "x", "</reasoning>", "<answer>", "fw3", "u672c", "</answer>">>,
     <<"<reasoning>", "x", "</reasoning>", "<answer>", "3", "u672c", "</answer>">>,
     <<"<reasoning>", "x", "</reasoning>", "<answer>", "3", "u679a", "</answer>">>,
     <<"<reasoning>", "x", "</reasoning>", "<answer>", "2", "u672c", "</answer>">>}

\* The reference of a counter batch: 3-hon.
VariantCounterRef == <<"3", "u672c">>

\* Answers of a kanji batch: 3-day with a fullwidth digit, 3-day, month, nichi.
VariantKanjiTexts ==
    {<<"<reasoning>", "x", "</reasoning>", "<answer>", "fw3", "u65e5", "</answer>">>,
     <<"<reasoning>", "x", "</reasoning>", "<answer>", "3", "u65e5", "</answer>">>,
     <<"<reasoning>", "x", "</reasoning>", "<answer>", "u6708", "</answer>">>,
     <<"<reasoning>", "x", "</reasoning>", "<answer>", "ni", "ti", "</answer>">>}

\* The reference of a kanji batch: 3-day.
VariantKanjiRef == <<"3", "u65e5">>

\* Answers of a word_order batch: the sentence with ideographic spaces, with spaces, with two words exchanged, x.
VariantWordOrderTexts ==
    {<<"<reasoning>", "x", "</reasoning>", "<answer>", "u79c1", "ha", "ZSP", "u672c", "wo", "ZSP", "u8aad", "mi", "ma", "su", "</answer>">>,
     <<"<reasoning>", "x", "</reasoning>", "<answer>", "u79c1", "ha", " ", "u672c", "wo", " ", "u8aad", "mi", "ma", "su", "</answer>">>,
     <<"<reasoning>", "x", "</reasoning>", "<answer>", "u672c", "wo", " ", "u79c1", "ha", " ", "u8aad", "mi", "ma", "su", "</answer>">>,
     <<"<reasoning>", "x", "</reasoning>", "<answer>", "x", "</answer>">>}

\* The reference of a word_order batch: the sentence with spaces.
VariantWordOrderRef == <<"u79c1", "ha", " ", "u672c", "wo", " ", "u8aad", "mi", "ma", "su">>

\* The batches of a family with its reference for every completion.
VariantCallsOf(task, texts, ref) ==
    {[task |-> task, prompts |-> Some([i \in 1..Len(cs) |-> QuestionOf(task)]),
      completions |-> Some(cs), answer |-> Some([i \in 1..Len(cs) |-> ref]),
      responses |-> None] : cs \in Batches(texts)}

VariantCalls ==
       VariantCallsOf("particle", VariantParticleTexts, VariantParticleRef)
    \cup VariantCallsOf("keigo", VariantKeigoTexts, VariantKeigoRef)
    \cup VariantCallsOf("counter", VariantCounterTexts, VariantCounterRef)
    \cup VariantCallsOf("kanji", VariantKanjiTexts, VariantKanjiRef)
    \cup VariantCallsOf("word_order", VariantWordOrderTexts, VariantWordOrderRef)

VariantInit ==
    /\ fn = NoCall
    /\ args \in VariantCalls
    /\ ret = Returned(<<>>)
    /\ accuracy_stats = EmptyStats
    /\ config = DefaultConfig

VariantNext ==
    \/ Call_balanced_check_answer
    \/ Call_balanced_check_keigo
    \/ Call_balanced_check_counter
    \/ Call_balanced_check_kanji_answer
    \/ Call_balanced_check_word_order

VariantSpec == VariantInit /\ [][VariantNext]_vars

\* The answer of completion i is not the reference character by character
\* but equals it after Unicode normalization.
NormalizedEqual(i) ==
    /\ HasGuess(i)
    /\ Guess(i) # Ref(i)
    /\ NFKC(Guess(i)) = NFKC(Ref(i))

\* The answer of completion i differs from the reference also after
\* normalization: a partial-credit or a wrong answer.
NormalizedDifferent(i) == HasGuess(i) /\ NFKC(Guess(i)) # NFKC(Ref(i))

\* C20: in each of the five answer scorers an answer that equals the
\* reference only after Unicode normalization gets a near-best score: a
\* positive one, strictly higher than the score of every partial-credit and
\* every wrong answer.
C20_NormalizedEqualNearBest ==
    (NewCall /\ fn \in FamilyAnswerScorers /\ ScoredAll) =>
        \A i \in 1..BatchSize :
            NormalizedEqual(i) =>
                /\ ret.scores[i] > 0
                /\ \A j \in 1..BatchSize :
                       NormalizedDifferent(j) => ret.scores[i] > ret.scores[j]

---------------------------------------------------------------------------
(* Large-scale generation.  generate_large_dataset seeds both random       *)
(* generators, cuts the tasks into batches and hands them, in order, to    *)
(* the worker processes of a pool, each a fork of the parent with its own  *)
(* copy of the two generators.  Here args is [total_tasks, batch_size,     *)
(* seed, num_workers] and ret is [np_random, next, results]: the state of  *)
(* numpy's global generator in every worker, the number of batches handed  *)
(* out, and the task lists returned so far in batch order.                 *)
(* A generator is a full-period congruential generator on 0..31 standing   *)
(* for the Mersenne Twister: seeding sets the state, every draw advances   *)
(* it.                                                                     *)

\* Largest total_tasks.
MaxTasks == 4

\* Largest num_workers.
MaxWorkers == 3

\* The step of a generator.
Advance(state) == (5 * state + 3) % 32

\* random.seed(seed), np.random.seed(seed)
Seeded(seed) == seed % 32

\* random.choice(seq): the element and the generator's new state.
random_choice(seq, state) ==
    [value |-> seq[(Advance(state) % Len(seq)) + 1], state |-> Advance(state)]

\* The first index whose cumulative share, in percent, exceeds u.
RECURSIVE PickFrom(_, _, _)
PickFrom(p, u, i) ==
    IF i = Len(p) \/ u < p[i] THEN i ELSE PickFrom(p, u - p[i], i + 1)

\* np.random.choice(keys, p=p) with p in percent.
np_random_choice(keys, p, state) ==
    [value |-> keys[PickFrom(p, (Advance(state) * 100) \div 32, 1)],
     state |-> Advance(state)]

\* The default task_type_distribution and difficulty_distribution, keys and
\* shares in percent.
task_type_keys == <<"basic", "advanced", "cultural">>
task_type_shares == <<60, 30, 10>>
difficulty_keys == <<"beginner", "intermediate", "advanced", "native">>
difficulty_shares == <<25, 35, 25, 15>>

task_categories(category) ==
    CASE category = "basic" ->
             <<"kanji_reading", "kanji_writing", "particle_fill",
               "keigo_conversion", "word_order", "counter_word">>
      [] category = "advanced" ->
             <<"advanced_grammar", "onomatopoeia", "conversation",
               "proverb_idiom", "business_japanese", "classical_japanese",
               "specialized_vocabulary">>
      [] category = "cultural" ->
             <<"seasonal_expression", "social_context", "regional_dialect",
               "age_gender_language", "emotional_expression">>

\* The batch configurations of generate_large_dataset.
batches(a) ==
    [i \in 1..((a.total_tasks + a.batch_size - 1) \div a.batch_size) |->
        [batch_id |-> i - 1,
         num_tasks |-> Min2(i * a.batch_size, a.total_tasks) - (i - 1) * a.batch_size,
         seed |-> a.seed + (i - 1)]]

\* The loop of _generate_batch from its n-th last round: a category and a
\* difficulty from numpy's generator, a task type from random, then the
\* task, whose generator draws its material from random.
RECURSIVE GenerateTasks(_, _, _)
GenerateTasks(n, random_state, np_state) ==
    IF n = 0 THEN [tasks |-> <<>>, np_random |-> np_state]
    ELSE LET category == np_random_choice(task_type_keys, task_type_shares, np_state)
             task_type == random_choice(task_categories(category.value), random_state)
             difficulty == np_random_choice(difficulty_keys, difficulty_shares,
                                            category.state)
             material == Advance(task_type.state)
             rest == GenerateTasks(n - 1, material, difficulty.state)
         IN  [tasks |-> <<[task_type |-> task_type.value,
                           difficulty |-> difficulty.value,
                           material |-> material]>> \o rest.tasks,
              np_random |-> rest.np_random]

\* _generate_batch in a process whose numpy generator is in np_state:
\* random.seed(batch_config['seed']), then the loop.
_generate_batch(batch_config, np_state) ==
    GenerateTasks(batch_config.num_tasks, Seeded(batch_config.seed), np_state)

PoolInit ==
    /\ fn = "generate_large_dataset"
    /\ args \in [total_tasks : 1..MaxTasks, batch_size : {1, 2},
                 seed : {0, 1, 42}, num_workers : 1..MaxWorkers]
    /\ ret = [np_random |-> [w \in 1..args.num_workers |-> Seeded(args.seed)],
              next |-> 0, results |-> <<>>]
    /\ accuracy_stats = EmptyStats
    /\ config = DefaultConfig

\* pool.imap hands the next batch to a worker that is free, any of them, and
\* the worker's list takes the batch's place in the results.
Run_generate_batch ==
    /\ ret.next < Len(batches(args))
    /\ \E w \in 1..args.num_workers :
           LET out == _generate_batch(batches(args)[ret.next + 1], ret.np_random[w])
           IN  ret' = [np_random |-> [ret.np_random EXCEPT ![w] = out.np_random],
                       next |-> ret.next + 1,
                       results |-> Append(ret.results, out.tasks)]
    /\ fn' = "_generate_batch"
    /\ UNCHANGED <<args, accuracy_stats, config>>

PoolNext == Run_generate_batch

PoolSpec == PoolInit /\ [][PoolNext]_vars

\* C21: the tasks of a batch depend only on the batch's configuration: they
\* are what a worker that ran no batch before returns for it, whichever
\* worker ran the batch and whatever that worker ran before.
C21_BatchTasksFromConfigOnly ==
    \A b \in 1..Len(ret.results) :
        ret.results[b] = _generate_batch(batches(args)[b], Seeded(args.seed)).tasks

---------------------------------------------------------------------------
(* The strict format check of the five families on texts made of markers   *)
(* only: any of them missing, repeated, in any order.                      *)

\* Largest number of markers in a text.
MaxMarkers == 5

MarkerTexts ==
    UNION {[1..n -> {"<reasoning>", "</reasoning>", "<answer>", "</answer>"}] :
              n \in 0..MaxMarkers}

StrictCalls ==
    {[task |-> task, prompts |-> Some(<<QuestionOf(task)>>),
      completions |-> Some(<<text>>), answer |-> None, responses |-> None] :
        task \in FamilyTasks, text \in MarkerTexts}

StrictInit ==
    /\ fn = NoCall
    /\ args \in StrictCalls
    /\ ret = Returned(<<>>)
    /\ accuracy_stats = EmptyStats
    /\ config = DefaultConfig

StrictNext ==
    \/ Call_particle_strict_format_check
    \/ Call_keigo_strict_format_check
    \/ Call_counter_strict_format_check
    \/ Call_kanji_strict_format_check
    \/ Call_word_order_strict_format_check

StrictSpec == StrictInit /\ [][StrictNext]_vars

StrictCheckers ==
    {"particle_strict_format_check", "keigo_strict_format_check",
     "counter_strict_format_check", "kanji_strict_format_check",
     "word_order_strict_format_check"}

\* The marker's first occurrence is at position p of the text.
FirstAt(text, marker, p) ==
    /\ p \in 1..Len(text)
    /\ text[p] = marker
    /\ \A j \in 1..(p - 1) : text[j] # marker

\* The first occurrences of the four markers are in the order
\* reasoning-open, reasoning-close, answer-open, answer-close.
FirstOccurrencesInOrder(text) ==
    \E p1, p2, p3, p4 \in 1..Len(text) :
        /\ FirstAt(text, "<reasoning>", p1) /\ FirstAt(text, "</reasoning>", p2)
        /\ FirstAt(text, "<answer>", p3) /\ FirstAt(text, "</answer>", p4)
        /\ p1 < p2 /\ p2 < p3 /\ p3 < p4

\* The number of the four markers that do not occur in the text.
MissingMarkers(text) ==
    Cardinality({m \in {"<reasoning>", "</reasoning>", "<answer>", "</answer>"} :
                    Occurrences(text, m) = 0})

\* C22: the strict_format_check functions of the five families return the
\* same scores for every text: 0.5 exactly when all four markers occur with
\* their first occurrences in order, -1.0 when all four occur in another
\* order, -0.5 for each missing marker otherwise.
C22_StrictFormatChecksAgree ==
    (NewCall /\ fn \in StrictCheckers) =>
        /\ ScoredAll
        /\ \A name \in StrictCheckers : ret = Result(name, args, EmptyStats).ret
        /\ \A i \in 1..BatchSize :
               LET text == Completions[i]
               IN  /\ ret.scores[i] = Tenths(5) <=>
                          (MissingMarkers(text) = 0 /\ FirstOccurrencesInOrder(text))
                   /\ (MissingMarkers(text) = 0 /\ ~FirstOccurrencesInOrder(text))
                          => ret.scores[i] = Tenths(-10)
                   /\ MissingMarkers(text) > 0
                          => ret.scores[i] = Tenths(-5) * MissingMarkers(text)

\* A strict format check scored a text in which all four markers occur, the
\* answer-close marker first and again at the end: -1.0.
C22_Witness ==
    /\ NewCall
    /\ fn \in StrictCheckers
    /\ Completions[1] = <<"</answer>", "<reasoning>", "</reasoning>", "<answer>",
                          "</answer>">>
    /\ ret = Returned(<<Tenths(-10)>>)

---------------------------------------------------------------------------
(* List-valued particle answers.  The particle answer scorer is applied    *)
(* to batches whose references are lists of two and three particles and    *)
(* whose answers are lists of one to three particles, the empty list,      *)
(* comma-separated particles, one particle, and a list without quotes.     *)

ListGuessTexts ==
    {<<"<reasoning>", "x", "</reasoning>", "<answer>", "[", "'", "ga", "'", "]", "</answer>">>,
     <<"<reasoning>", "x", "</reasoning>", "<answer>", "[", "'", "ha", "'", "]", "</answer>">>,
     <<"<reasoning>", "x", "</reasoning>", "<answer>", "[", "'", "ga", "'", ",", " ", "'", "ga", "'", "]", "</answer>">>,
     <<"<reasoning>", "x", "</reasoning>", "<answer>", "[", "'", "ga", "'", ",", " ", "'", "ha", "'", "]", "</answer>">>,
     <<"<reasoning>", "x", "</reasoning>", "<answer>", "[", "'", "ha", "'", ",", " ", "'", "ga", "'", "]", "</answer>">>,
     <<"<reasoning>", "x", "</reasoning>", "<answer>", "[", "'", "ha", "'", ",", " ", "'", "ha", "'", "]", "</answer>">>,
     <<"<reasoning>", "x", "</reasoning>", "<answer>", "[", "'", "ga", "'", ",", " ", "'", "ga", "'", ",", " ", "'", "ga", "'", "]", "</answer>">>,
     <<"<reasoning>", "x", "</reasoning>", "<answer>", "[", "'", "ga", "'", ",", " ", "'", "ga", "'", ",", " ", "'", "ha", "'", "]", "</answer>">>,
     <<"<reasoning>", "x", "</reasoning>", "<answer>", "[", "'", "ga", "'", ",", " ", "'", "ha", "'", ",", " ", "'", "ga", "'", "]", "</answer>">>,
     <<"<reasoning>", "x", "</reasoning>", "<answer>", "[", "'", "ga", "'", ",", " ", "'", "ha", "'", ",", " ", "'", "ha", "'", "]", "</answer>">>,
     <<"<reasoning>", "x", "</reasoning>", "<answer>", "[", "'", "ha", "'", ",", " ", "'", "ga", "'", ",", " ", "'", "ga", "'", "]", "</answer>">>,
     <<"<reasoning>", "x", "</reasoning>", "<answer>", "[", "'", "ha", "'", ",", " ", "'", "ga", "'", ",", " ", "'", "ha", "'", "]", "</answer>">>,
     <<"<reasoning>", "x", "</reasoning>", "<answer>", "[", "'", "ha", "'", ",", " ", "'", "ha", "'", ",", " ", "'", "ga", "'", "]", "</answer>">>,
     <<"<reasoning>", "x", "</reasoning>", "<answer>", "[", "'", "ha", "'", ",", " ", "'", "ha", "'", ",", " ", "'", "ha", "'", "]", "</answer>">>,
     <<"<reasoning>", "x", "</reasoning>", "<answer>", "[", "]", "</answer>">>,
     <<"<reasoning>", "x", "</reasoning>", "<answer>", "ga", ",", "ha", "</answer>">>,
     <<"<reasoning>", "x", "</reasoning>", "<answer>", "ha", ",", " ", "ga", "</answer>">>,
     <<"<reasoning>", "x", "</reasoning>", "<answer>", "ga", "</answer>">>,
     <<"<reasoning>", "x", "</reasoning>", "<answer>", "[", "ga", ",", "ha", "]", "</answer>">>}

ListRefs ==
    {<<"[", "'", "ga", "'", ",", " ", "'", "ha", "'", "]">>,
     <<"[", "'", "ga", "'", ",", " ", "'", "ha", "'", ",", " ", "'", "ga", "'", "]">>}

\* The batches with one reference for all their completions.
ListCalls ==
    {[task |-> "particle", prompts |-> Some([i \in 1..Len(cs) |-> ParticleQuestion]),
      completions |-> Some(cs), answer |-> Some([i \in 1..Len(cs) |-> ref]),
      responses |-> None] : cs \in Batches(ListGuessTexts), ref \in ListRefs}

ListInit ==
    /\ fn = NoCall
    /\ args \in ListCalls
    /\ ret = Returned(<<>>)
    /\ accuracy_stats = EmptyStats
    /\ config = DefaultConfig

ListNext == Call_balanced_check_answer

ListSpec == ListInit /\ [][ListNext]_vars

ListCall == NewCall /\ fn = "balanced_check_answer" /\ ScoredAll

\* The reference of completion i as a list, and the answer as the scorer
\* reads it.
RefList(i) == Val(literal_eval(Ref(i)))
GuessList(i) == particle_guess_list(Guess(i))

\* The number k of positions at which answer and reference hold the same
\* particle, and the longer of the two lengths.
MatchingPositions(i) ==
    Cardinality({p \in 1..Min2(Len(GuessList(i).v), Len(RefList(i).v)) :
                    GuessList(i).v[p] = RefList(i).v[p]})
LongerLength(i) == Max2(Len(GuessList(i).v), Len(RefList(i).v))

\* Completion i answers a list-valued reference with another list.
OtherList(i) ==
    /\ HasGuess(i)
    /\ ~IsNone(literal_eval(Ref(i)))
    /\ RefList(i).t = "list"
    /\ GuessList(i) # RefList(i)

\* C23: against a list-valued reference a guess list that is not the
\* reference, with k matching positions, scores k divided by the longer of
\* the two lengths when k > 0 and below zero when k = 0; the score stays
\* below the 2.0 of the full match and, among guesses of the same longer
\* length, does not decrease when k grows.
C23_ListScoreProportional ==
    ListCall =>
        \A i \in 1..BatchSize :
            OtherList(i) =>
                /\ MatchingPositions(i) > 0 =>
                       ret.scores[i] * LongerLength(i) = Unit * MatchingPositions(i)
                /\ MatchingPositions(i) = 0 => ret.scores[i] < 0
                /\ ret.scores[i] < Tenths(20)
                /\ \A j \in 1..BatchSize :
                       ( /\ OtherList(j)
                         /\ LongerLength(j) = LongerLength(i)
                         /\ MatchingPositions(j) >= MatchingPositions(i) ) =>
                           ret.scores[j] >= ret.scores[i]

\* Against a reference of three particles, an answer with one matching
\* position scored 1/3 and one with two matching positions 2/3.
C23_Witness ==
    /\ ListCall
    /\ BatchSize = 2
    /\ OtherList(1) /\ OtherList(2)
    /\ LongerLength(1) = 3 /\ LongerLength(2) = 3
    /\ MatchingPositions(1) = 1 /\ MatchingPositions(2) = 2
    /\ ret.scores = <<Unit \div 3, (2 * Unit) \div 3>>

---------------------------------------------------------------------------
(* Word order.  The word-order answer scorer is applied to batches whose   *)
(* references are a sentence of five words and one of three, and whose     *)
(* answers hold the words of a reference in place, exchanged, rotated or   *)
(* replaced by other words.                                                *)

OrderGuessTexts ==
    {<<"<reasoning>", "x", "</reasoning>", "<answer>", "u79c1", "ha", " ", "u4eca", "u65e5", " ", "u56f3", "u66f8", "u9928", "de", " ", "u672c", "wo", " ", "u8aad", "mi", "ma", "su", "</answer>">>,
     <<"<reasoning>", "x", "</reasoning>", "<answer>", "u79c1", "ha", " ", " ", "u4eca", "u65e5", " ", "u56f3", "u66f8", "u9928", "de", " ", "u672c", "wo", " ", "u8aad", "mi", "ma", "su", "</answer>">>,
     <<"<reasoning>", "x", "</reasoning>", "<answer>", "u4eca", "u65e5", " ", "u79c1", "ha", " ", "u56f3", "u66f8", "u9928", "de", " ", "u672c", "wo", " ", "u8aad", "mi", "ma", "su", "</answer>">>,
     <<"<reasoning>", "x", "</reasoning>", "<answer>", "u79c1", "ha", " ", "u4eca", "u65e5", " ", "u56f3", "u66f8", "u9928", "de", " ", "u672c", "wo", " ", "x", "</answer>">>,
     <<"<reasoning>", "x", "</reasoning>", "<answer>", "x", " ", "u4eca", "u65e5", " ", "u56f3", "u66f8", "u9928", "de", " ", "u672c", "wo", " ", "u8aad", "mi", "ma", "su", "</answer>">>,
     <<"<reasoning>", "x", "</reasoning>", "<answer>", "u4eca", "u65e5", " ", "u56f3", "u66f8", "u9928", "de", " ", "u672c", "wo", " ", "u8aad", "mi", "ma", "su", " ", "u79c1", "ha", "</answer>">>,
     <<"<reasoning>", "x", "</reasoning>", "<answer>", "u79c1", "ha", " ", "u4eca", "u65e5", " ", "x", " ", "y", " ", "z", "</answer>">>,
     <<"<reasoning>", "x", "</reasoning>", "<answer>", "u4eca", "u65e5", " ", "u79c1", "ha", " ", "u672c", "wo", " ", "u56f3", "u66f8", "u9928", "de", " ", "u8aad", "mi", "ma", "su", "</answer>">>,
     <<"<reasoning>", "x", "</reasoning>", "<answer>", "x", " ", "y", " ", "z", " ", "w", " ", "u8aad", "mi", "ma", "si", "ta", "</answer>">>,
     <<"<reasoning>", "x", "</reasoning>", "<answer>", "u672c", "wo", " ", "u79c1", "ha", " ", "u8aad", "mi", "ma", "su", "</answer>">>,
     <<"<reasoning>", "x", "</reasoning>", "<answer>", "u79c1", "ha", " ", "x", " ", "y", "</answer>">>,
     <<"<reasoning>", "x", "</reasoning>", "<answer>", "u672c", "wo", " ", "u8aad", "mi", "ma", "su", " ", "u79c1", "ha", "</answer>">>,
     <<"<reasoning>", "x", "</reasoning>", "<answer>", "u79c1", "ha", " ", "u672c", "wo", " ", "x", "</answer>">>}

OrderRefs ==
    {<<"u79c1", "ha", " ", "u4eca", "u65e5", " ", "u56f3", "u66f8", "u9928", "de", " ", "u672c", "wo", " ", "u8aad", "mi", "ma", "su">>,
     <<"u79c1", "ha", " ", "u672c", "wo", " ", "u8aad", "mi", "ma", "su">>}

OrderCalls ==
    {[task |-> "word_order",
      prompts |-> Some([i \in 1..Len(cs) |-> WordOrderQuestion]),
      completions |-> Some(cs), answer |-> Some([i \in 1..Len(cs) |-> ref]),
      responses |-> None] : cs \in Batches(OrderGuessTexts), ref \in OrderRefs}

OrderInit ==
    /\ fn = NoCall
    /\ args \in OrderCalls
    /\ ret = Returned(<<>>)
    /\ accuracy_stats = EmptyStats
    /\ config = DefaultConfig

OrderNext == Call_balanced_check_word_order

OrderSpec == OrderInit /\ [][OrderNext]_vars

OrderCall == NewCall /\ fn = "balanced_check_word_order" /\ ScoredAll

\* The words of the answer of completion i and of its reference.
GuessWords(i) == Split(Guess(i))
RefWords(i) == Split(Ref(i))

\* Completion i answers with as many words as its reference.
SameWordCount(i) == HasGuess(i) /\ Len(GuessWords(i)) = Len(RefWords(i))

\* The number of positions of completion i that hold the reference's word;
\* the fraction is this number over the number of words.
ExactPositions(i) ==
    Cardinality({p \in 1..Len(RefWords(i)) : GuessWords(i)[p] = RefWords(i)[p]})

\* C24 as stated: for guesses with the reference's word count, a guess with
\* a larger fraction of exactly matching positions never scores lower than
\* a guess with a smaller fraction against the same reference.
C24_ScoreFollowsFraction ==
    OrderCall =>
        \A i, j \in 1..BatchSize :
            ( /\ SameWordCount(i) /\ SameWordCount(j)
              /\ Ref(i) = Ref(j)
              /\ ExactPositions(i) > ExactPositions(j) ) =>
                ret.scores[i] >= ret.scores[j]

\* The band of the fraction k / n: 3 for 1, 2 from 0.8, 1 from 0.6, 0 below.
FractionBand(k, n) ==
    IF k = n THEN 3
    ELSE IF 10 * k >= 8 * n THEN 2
    ELSE IF 10 * k >= 6 * n THEN 1
    ELSE 0

\* C24, amended: for guesses with the reference's word count the score
\* follows the band of the fraction of exactly matching positions (1, from
\* 0.8, from 0.6, below 0.6): a guess in a higher band scores strictly
\* higher than a guess in a lower band against the same reference.  Below
\* 0.6 the score is 0.5 plus the ending bonus when the word sets overlap
\* by 0.8 or more and -0.5 otherwise, whatever the fraction.
C24_ScoreFollowsFractionBand ==
    OrderCall =>
        \A i, j \in 1..BatchSize :
            ( /\ SameWordCount(i) /\ SameWordCount(j)
              /\ Ref(i) = Ref(j)
              /\ FractionBand(ExactPositions(i), Len(RefWords(i)))
                     > FractionBand(ExactPositions(j), Len(RefWords(j))) ) =>
                ret.scores[i] > ret.scores[j]

\* Against the sentence of five words, an answer with three matching
\* positions scored 1.3 and a rotated answer with none 0.5.
C24_Witness ==
    /\ OrderCall
    /\ BatchSize = 2
    /\ SameWordCount(1) /\ SameWordCount(2)
    /\ Len(RefWords(1)) = 5
    /\ ExactPositions(1) = 3 /\ ExactPositions(2) = 0
    /\ ret.scores = <<Tenths(13), Tenths(5)>>

---------------------------------------------------------------------------
(* The accuracy summary.  One instance scores batches of one completion    *)
(* with match_format_exactly and check_answer, in any order, and is then   *)
(* asked for get_accuracy_summary.                                         *)

\* sum() of a list of integers.
RECURSIVE sum(_)
sum(list) == IF list = <<>> THEN 0 ELSE Head(list) + sum(Tail(list))

\* part / whole * 100 in units of 1 / Unit percent; whole is not 0.
Rate(part, whole) == (part * 100 * Unit) \div whole

\* get_accuracy_summary(): None without a correct answer, else the rates;
\* dividing by len of an empty correct_format raises ZeroDivisionError.
get_accuracy_summary(stats) ==
    IF stats.correct_answer = <<>>
    THEN [raised |-> FALSE, exc |-> "", summary |-> None]
    ELSE LET total_attempts == Len(stats.correct_answer)
         IN  IF Len(stats.correct_format) = 0
             THEN [raised |-> TRUE, exc |-> "ZeroDivisionError", summary |-> None]
             ELSE [raised |-> FALSE, exc |-> "",
                   summary |-> Some(
                       [total_attempts |-> total_attempts,
                        correct_rate |-> Rate(sum(stats.correct_answer), total_attempts),
                        format_rate |-> Rate(sum(stats.correct_format),
                                             Len(stats.correct_format)),
                        partial_rate |-> Rate(sum(stats.partial_answer), total_attempts),
                        no_answer_rate |-> Rate(sum(stats.no_answer), total_attempts)])]

SummaryInit ==
    /\ fn = NoCall
    /\ args = [task |-> "general"]
    /\ ret = [raised |-> FALSE, exc |-> "", summary |-> None]
    /\ accuracy_stats = EmptyStats
    /\ config = DefaultConfig

Call_get_accuracy_summary ==
    /\ fn = NoCall
    /\ fn' = "get_accuracy_summary"
    /\ ret' = get_accuracy_summary(accuracy_stats)
    /\ UNCHANGED <<args, accuracy_stats, config>>

SummaryNext ==
    \/ Earlier_match_format_exactly
    \/ Earlier_check_answer
    \/ Call_get_accuracy_summary

SummarySpec == SummaryInit /\ [][SummaryNext]_vars

\* C25: after any sequence of calls of match_format_exactly and
\* check_answer on one instance, also one without any call of
\* match_format_exactly, get_accuracy_summary returns None or a summary
\* and does not raise.
C25_SummaryNeverRaises ==
    fn = "get_accuracy_summary" => ~ret.raised

---------------------------------------------------------------------------
(* Explanation quality.  Each family's enhanced quality scorer is applied  *)
(* to batches of completions with and without a reasoning block: short,    *)
(* long and empty reasonings, with and without keywords, with the          *)
(* reference or a wrong answer.                                            *)

\* Completions of a particle batch: nothing,
\* no opening tag,
\* tags reversed,
\* wrong answer repeated in a short reasoning,
\* both keigo kinds named around the wrong answer,
\* empty reasoning, no answer,
\* good explanation.
QualityParticleTexts ==
    {<<>>,
     <<"x", "</reasoning>", "<answer>", "ga", "</answer>">>,
     <<"</reasoning>", "x", "<reasoning>", "<answer>", "ga", "</answer>">>,
     <<"<reasoning>", "wo", "</reasoning>", "<answer>", "wo", "</answer>">>,
     <<"<reasoning>", "u5c0a", "u656c", "u8a9e", "u8b19", "u8b72", "u8a9e", "wo", "</reasoning>", "<answer>", "wo", "</answer>">>,
     <<"<reasoning>", "</reasoning>">>,
     <<"<reasoning>", "lq", "ga", "rq", "ha", "u4e3b", "u8a9e", "wo", "u793a", "su", "u52a9", "u8a5e", "de", "touten", "u52d5", "u4f5c", "wo", "su", "ru", "u4eba", "ya", "u7269", "wo", "u8868", "su", "to", "ki", "ni", "u4f7f", "ii", "ma", "su", "u3002", "ko", "no", "u6587", "de", "ha", "u4e3b", "u8a9e", "de", "su", "</reasoning>", "<answer>", "ga", "</answer>">>}

QualityParticleRef == <<"ga">>

\* Completions of a keigo batch: nothing,
\* no opening tag,
\* tags reversed,
\* wrong answer repeated in a short reasoning,
\* both keigo kinds named around the wrong answer,
\* empty reasoning, no answer,
\* good explanation.
QualityKeigoTexts ==
    {<<>>,
     <<"x", "</reasoning>", "<answer>", "u53c2", "ru", "</answer>">>,
     <<"</reasoning>", "x", "<reasoning>", "<answer>", "u53c2", "ru", "</answer>">>,
     <<"<reasoning>", "ii", "ra", "xtu", "si", "xya", "ru", "</reasoning>", "<answer>", "ii", "ra", "xtu", "si", "xya", "ru", "</answer>">>,
     <<"<reasoning>", "u5c0a", "u656c", "u8a9e", "u8b19", "u8b72", "u8a9e", "ii", "ra", "xtu", "si", "xya", "ru", "</reasoning>", "<answer>", "ii", "ra", "xtu", "si", "xya", "ru", "</answer>">>,
     <<"<reasoning>", "</reasoning>">>,
     <<"<reasoning>", "lq", "u884c", "ku", "rq", "no", "u8b19", "u8b72", "u8a9e", "ha", "lq", "u53c2", "ru", "rq", "de", "su", "u3002", "u81ea", "u5206", "no", "u52d5", "u4f5c", "wo", "he", "ri", "ku", "da", "xtu", "te", "u8a00", "uu", "no", "de", "touten", "u76f8", "u624b", "he", "no", "u656c", "u610f", "wo", "u8868", "si", "ma", "su", "</reasoning>", "<answer>", "u53c2", "ru", "</answer>">>}

QualityKeigoRef == <<"u53c2", "ru">>

\* Completions of a counter batch: nothing,
\* no opening tag,
\* tags reversed,
\* wrong answer repeated in a short reasoning,
\* both keigo kinds named around the wrong answer,
\* empty reasoning, no answer,
\* good explanation.
QualityCounterTexts ==
    {<<>>,
     <<"x", "</reasoning>", "<answer>", "3", "u672c", "</answer>">>,
     <<"</reasoning>", "x", "<reasoning>", "<answer>", "3", "u672c", "</answer>">>,
     <<"<reasoning>", "3", "u679a", "</reasoning>", "<answer>", "3", "u679a", "</answer>">>,
     <<"<reasoning>", "u5c0a", "u656c", "u8a9e", "u8b19", "u8b72", "u8a9e", "3", "u679a", "</reasoning>", "<answer>", "3", "u679a", "</answer>">>,
     <<"<reasoning>", "</reasoning>">>,
     <<"<reasoning>", "u925b", "u7b46", "ha", "u7d30", "u9577", "ii", "u7269", "na", "no", "de", "touten", "u52a9", "u6570", "u8a5e", "lq", "u672c", "rq", "wo", "u4f7f", "ii", "ma", "su", "u3002", "u9577", "ii", "u7269", "wo", "u6570", "ee", "ru", "u5358", "u4f4d", "de", "su", "u3002", "da", "ka", "ra", "3", "u672c", "de", "su", "</reasoning>", "<answer>", "3", "u672c", "</answer>">>}

QualityCounterRef == <<"3", "u672c">>

\* Completions of a kanji batch: nothing,
\* no opening tag,
\* tags reversed,
\* wrong answer repeated in a short reasoning,
\* both keigo kinds named around the wrong answer,
\* empty reasoning, no answer,
\* good explanation.
QualityKanjiTexts ==
    {<<>>,
     <<"x", "</reasoning>", "<answer>", "u65e5", "</answer>">>,
     <<"</reasoning>", "x", "<reasoning>", "<answer>", "u65e5", "</answer>">>,
     <<"<reasoning>", "u76ee", "</reasoning>", "<answer>", "u76ee", "</answer>">>,
     <<"<reasoning>", "u5c0a", "u656c", "u8a9e", "u8b19", "u8b72", "u8a9e", "u76ee", "</reasoning>", "<answer>", "u76ee", "</answer>">>,
     <<"<reasoning>", "</reasoning>">>,
     <<"<reasoning>", "ko", "no", "u6f22", "u5b57", "ha", "u5c0f", "u5b66", "1", "u5e74", "u751f", "de", "u7fd2", "uu", "u6f22", "u5b57", "de", "su", "u3002", "u97f3", "u8aad", "mi", "ha", "lq", "NI", "TI", "rq", "touten", "u8a13", "u8aad", "mi", "ha", "lq", "hi", "rq", "de", "touten", "s", "u", "n", "to", "ii", "uu", "u610f", "u5473", "de", "su", "</reasoning>", "<answer>", "u65e5", "</answer>">>}

QualityKanjiRef == <<"u65e5">>

\* Completions of a word_order batch: nothing,
\* no opening tag,
\* tags reversed,
\* wrong answer repeated in a short reasoning,
\* both keigo kinds named around the wrong answer,
\* empty reasoning, no answer,
\* good explanation.
QualityWordOrderTexts ==
    {<<>>,
     <<"x", "</reasoning>", "<answer>", "u79c1", "ha", " ", "u672c", "wo", " ", "u8aad", "mi", "ma", "su", "</answer>">>,
     <<"</reasoning>", "x", "<reasoning>", "<answer>", "u79c1", "ha", " ", "u672c", "wo", " ", "u8aad", "mi", "ma", "su", "</answer>">>,
     <<"<reasoning>", "u672c", "wo", " ", "u79c1", "ha", " ", "u8aad", "mi", "ma", "su", "</reasoning>", "<answer>", "u672c", "wo", " ", "u79c1", "ha", " ", "u8aad", "mi", "ma", "su", "</answer>">>,
     <<"<reasoning>", "u5c0a", "u656c", "u8a9e", "u8b19", "u8b72", "u8a9e", "u672c", "wo", " ", "u79c1", "ha", " ", "u8aad", "mi", "ma", "su", "</reasoning>", "<answer>", "u672c", "wo", " ", "u79c1", "ha", " ", "u8aad", "mi", "ma", "su", "</answer>">>,
     <<"<reasoning>", "</reasoning>">>,
     <<"<reasoning>", "u6b63", "si", "ii", "u8a9e", "u9806", "ha", "u4e3b", "u8a9e", "lq", "u79c1", "ha", "rq", "touten", "u76ee", "u7684", "u8a9e", "lq", "u672c", "wo", "rq", "touten", "u8ff0", "u8a9e", "lq", "u8aad", "mi", "ma", "su", "rq", "no", "u9806", "u756a", "de", "su", "u3002", "u6642", "u9593", "ya", "u5834", "u6240", "ha", "aa", "ri", "ma", "se", "nn", "</reasoning>", "<answer>", "u79c1", "ha", " ", "u672c", "wo", " ", "u8aad", "mi", "ma", "su", "</answer>">>}

QualityWordOrderRef == <<"u79c1", "ha", " ", "u672c", "wo", " ", "u8aad", "mi", "ma", "su">>

QualityCalls ==
       VariantCallsOf("particle", QualityParticleTexts, QualityParticleRef)
    \cup VariantCallsOf("keigo", QualityKeigoTexts, QualityKeigoRef)
    \cup VariantCallsOf("counter", QualityCounterTexts, QualityCounterRef)
    \cup VariantCallsOf("kanji", QualityKanjiTexts, QualityKanjiRef)
    \cup VariantCallsOf("word_order", QualityWordOrderTexts, QualityWordOrderRef)

QualityInit ==
    /\ fn = NoCall
    /\ args \in QualityCalls
    /\ ret = Returned(<<>>)
    /\ accuracy_stats = EmptyStats
    /\ config = DefaultConfig

QualityNext ==
    \/ Call_enhanced_particle_quality
    \/ Call_enhanced_keigo_quality
    \/ Call_enhanced_counter_quality
    \/ Call_enhanced_kanji_quality
    \/ Call_enhanced_word_order_quality

QualitySpec == QualityInit /\ [][QualityNext]_vars

QualityScorers ==
    {"enhanced_particle_quality", "enhanced_keigo_quality", "enhanced_counter_quality",
     "enhanced_kanji_quality", "enhanced_word_order_quality"}

\* The text holds an opening reasoning tag with a closing one after it.
HasReasoningBlock(text) ==
    \E p, q \in 1..Len(text) :
        p < q /\ text[p] = "<reasoning>" /\ text[q] = "</reasoning>"

\* C26: in each of the five enhanced quality scorers a completion without a
\* reasoning block scores exactly -1.0 and a completion with a reasoning
\* block scores strictly higher than -1.0, whatever its keywords, length,
\* extracted answer and reference.
C26_ReasoningBlockDecides ==
    (NewCall /\ fn \in QualityScorers) =>
        /\ ScoredAll
        /\ \A i \in 1..BatchSize :
               IF HasReasoningBlock(Completions[i])
               THEN ret.scores[i] > Tenths(-10)
               ELSE ret.scores[i] = Tenths(-10)

\* enhanced_keigo_quality scored a completion whose closing reasoning tag
\* comes before the opening one -1.0 and one with a short reasoning that
\* repeats its wrong answer -0.4.
C26_Witness ==
    /\ NewCall
    /\ fn = "enhanced_keigo_quality"
    /\ BatchSize = 2
    /\ Completions[1] # <<>>
    /\ Head(Completions[1]) = "</reasoning>"
    /\ ~HasReasoningBlock(Completions[1])
    /\ HasReasoningBlock(Completions[2])
    /\ ret.scores = <<Tenths(-10), Tenths(-4)>>

---------------------------------------------------------------------------
(* Divisions of the answer scorers.  One extracted answer and one          *)
(* reference, either of them possibly made of whitespace only and the      *)
(* reference possibly empty, go through the scorer's strip() into the      *)
(* function that scores the pair; a division by 0 raises.                  *)

\* What the Format Matcher extracted: (.+?) is never empty.
DivisionGuesses ==
    {<<" ">>,
     <<" ", " ">>,
     <<"ZSP">>,
     <<"x">>,
     <<" ", "x", " ">>,
     <<"x", " ", "y">>,
     <<"y", " ", "x">>,
     <<"u65e5">>,
     <<"u6708">>,
     <<"ga">>,
     <<"[", "'", "ga", "'", "]">>,
     <<"[", "'", "ha", "'", ",", " ", "'", "ga", "'", "]">>,
     <<"[", "]">>}

\* The references.
DivisionAnswers ==
    {<<>>,
     <<" ">>,
     <<"ZSP">>,
     <<"x">>,
     <<"x", " ", "y">>,
     <<"u65e5">>,
     <<"u65e5", "u672c">>,
     <<"[", "'", "ga", "'", "]">>,
     <<"[", "'", "ga", "'", ",", " ", "'", "ha", "'", "]">>,
     <<"[", "]">>}

\* _evaluate_word_order_divisors without the return on an exact match.
_evaluate_word_order_divisors_unguarded(guess, answer) ==
    IF Len(Split(guess)) = Len(Split(answer)) THEN {Len(Split(answer))} ELSE {}

\* The divisors _evaluate_word_order evaluates on a pair: len(answer_words),
\* for position_score and inclusion_score, when the pair differs and has
\* the same number of words.
_evaluate_word_order_divisors(guess, answer) ==
    IF guess = answer THEN {}
    ELSE IF Len(Split(guess)) = Len(Split(answer)) THEN {Len(Split(answer))}
    ELSE {}

\* The divisors _evaluate_kanji_answer evaluates: len(answer), when no
\* earlier rule returned, the lengths are equal and a character agrees.
_evaluate_kanji_answer_divisors(guess, answer) ==
    IF \/ guess = answer
       \/ NFKC(guess) = NFKC(answer)
       \/ _is_reading_partially_correct(guess, answer)
       \/ _is_similar_kanji(guess, answer)
       \/ _is_similar_sound(guess, answer)
    THEN {}
    ELSE IF PyLen(guess) = PyLen(answer) /\ common_chars(guess, answer) > 0
    THEN {PyLen(answer)}
    ELSE {}

\* The divisors _evaluate_particle_list evaluates: total, when the lists
\* differ and some but not all positions agree.
_evaluate_particle_list_divisors(guess, ans) ==
    IF IsNone(literal_eval(ans)) THEN {}
    ELSE LET true_list == Val(literal_eval(ans))
             guess_list == particle_guess_list(guess)
             n == Min2(Len(guess_list.v), Len(true_list.v))
             correct_count ==
                 Cardinality({i \in 1..n : PyEq(guess_list.v[i], true_list.v[i])})
             total == Max2(Len(guess_list.v), Len(true_list.v))
         IN  IF PyEq(guess_list, true_list) THEN {}
             ELSE IF correct_count = total THEN {}
             ELSE IF correct_count > 0 THEN {total}
             ELSE {}

\* The divisors check_answer evaluates: max(len(guess), len(true_answer)) in
\* the partial-match branch.
check_answer_divisors(guess, true_answer) ==
    IF check_answer_case(guess, true_answer) = "partial"
    THEN {Max2(PyLen(guess), PyLen(true_answer))}
    ELSE {}

\* The outcome of scoring a pair: ZeroDivisionError when a divisor is 0.
Divided(divisors, score) ==
    IF 0 \in divisors THEN Raised("ZeroDivisionError") ELSE Returned(<<score>>)

DivisionInit ==
    /\ fn = NoCall
    /\ args \in [guess : DivisionGuesses, answer : DivisionAnswers]
    /\ ret = Returned(<<>>)
    /\ accuracy_stats = EmptyStats
    /\ config = DefaultConfig

\* guess = guess.strip(); true_answer = str(true_answer).strip()
StrippedGuess == Strip(args.guess)
StrippedAnswer == Strip(args.answer)

Score_evaluate_word_order ==
    /\ fn = NoCall
    /\ fn' = "_evaluate_word_order"
    /\ ret' = Divided(_evaluate_word_order_divisors(StrippedGuess, StrippedAnswer),
                      _evaluate_word_order(StrippedGuess, StrippedAnswer))
    /\ UNCHANGED <<args, accuracy_stats, config>>

Score_evaluate_kanji_answer ==
    /\ fn = NoCall
    /\ fn' = "_evaluate_kanji_answer"
    /\ ret' = Divided(_evaluate_kanji_answer_divisors(StrippedGuess, StrippedAnswer),
                      _evaluate_kanji_answer(StrippedGuess, StrippedAnswer))
    /\ UNCHANGED <<args, accuracy_stats, config>>

\* balanced_check_answer takes the list evaluation for a bracketed reference.
Score_evaluate_particle_list ==
    /\ fn = NoCall
    /\ IsBracketed(StrippedAnswer)
    /\ fn' = "_evaluate_particle_list"
    /\ ret' = Divided(_evaluate_particle_list_divisors(StrippedGuess, StrippedAnswer),
                      _evaluate_particle_list(StrippedGuess, StrippedAnswer))
    /\ UNCHANGED <<args, accuracy_stats, config>>

Score_check_answer ==
    /\ fn = NoCall
    /\ fn' = "check_answer"
    /\ ret' = Divided(check_answer_divisors(StrippedGuess, StrippedAnswer),
                      check_answer_score(StrippedGuess, StrippedAnswer))
    /\ UNCHANGED <<args, accuracy_stats, config>>

DivisionNext ==
    \/ Score_evaluate_word_order
    \/ Score_evaluate_kanji_answer
    \/ Score_evaluate_particle_list
    \/ Score_check_answer

DivisionSpec == DivisionInit /\ [][DivisionNext]_vars

\* C27: no answer scorer divides by zero: for every pair of extracted
\* answer and reference, empty and whitespace-only strings included,
\* _evaluate_word_order, _evaluate_kanji_answer, _evaluate_particle_list
\* and the partial-match branch of check_answer return a score.
C27_NoDivisionByZero ==
    fn # NoCall => ~ret.raised /\ Len(ret.scores) = 1

\* _evaluate_word_order scored an extracted answer of whitespace only
\* against an empty reference 2.0, and check_answer gave the same pair 3.0.
C27_Witness ==
    /\ fn \in {"_evaluate_word_order", "check_answer"}
    /\ args.guess # <<>> /\ StrippedGuess = <<>>
    /\ args.answer = <<>>
    /\ ret = Returned(<<IF fn = "check_answer" THEN Tenths(30) ELSE Tenths(20)>>)

---------------------------------------------------------------------------
(* DatasetSerializer.  save_dataset writes a list of records into an empty *)
(* directory, load_dataset reads the directory back.  A record is an       *)
(* integer standing for a JSON object; a file is its name (stem, chunk     *)
(* number, extension, .gz or not) and its content.                         *)

\* Largest number of records of a dataset.
MaxData == 4

\* The records, the formats and the chunk sizes drawn.
DataRecords == {1, 2}
SerializerFormats == {"json", "jsonl", "pickle"}
ChunkSizes == {1, 2}

\* json.dumps(item, ensure_ascii=False) and json.loads(line) on one record.
json_dumps(item) == [json |-> item]
json_loads(line) == line.json

\* The content of a file: the lines written one by one, the document of one
\* json.dump, or the object of one pickle.dump.
Lines(items) == [kind |-> "lines", lines |-> [i \in 1..Len(items) |-> json_dumps(items[i])]]
Document(items) == [kind |-> "document", value |-> items]
Pickled(items) == [kind |-> "pickle", value |-> items]

\* data[start_idx:end_idx] of chunk i (from 0).
Chunk(data, i, chunk_size) ==
    Slice(data, i * chunk_size + 1, Min2((i + 1) * chunk_size, Len(data)))

\* The data files save_dataset writes.  Above chunk_size only jsonl and
\* pickle have a branch, at or below it only json and jsonl.
save_dataset(a) ==
    IF Len(a.data) > a.chunk_size
    THEN LET num_chunks == (Len(a.data) + a.chunk_size - 1) \div a.chunk_size
         IN  IF a.format = "jsonl"
             THEN {[stem |-> "data_chunk", index |-> i, ext |-> "jsonl", gz |-> a.compress,
                    content |-> Lines(Chunk(a.data, i, a.chunk_size))] :
                   i \in 0..(num_chunks - 1)}
             ELSE IF a.format = "pickle"
             THEN {[stem |-> "data_chunk", index |-> i, ext |-> "pkl", gz |-> a.compress,
                    content |-> Pickled(Chunk(a.data, i, a.chunk_size))] :
                   i \in 0..(num_chunks - 1)}
             ELSE {}
    ELSE IF a.format = "json"
         THEN {[stem |-> "data", index |-> 0, ext |-> "json", gz |-> a.compress,
                content |-> Document(a.data)]}
         ELSE IF a.format = "jsonl"
         THEN {[stem |-> "data", index |-> 0, ext |-> "jsonl", gz |-> a.compress,
                content |-> Lines(a.data)]}
         ELSE {}

\* What load_dataset returns: a list, or whatever json.load made of the file.
Loaded(value) == [raised |-> FALSE, exc |-> "", data |-> value]
LoadFailed(exc) == [raised |-> TRUE, exc |-> exc, data |-> <<>>]

\* The chunk files in the order of sorted(): by chunk number.
RECURSIVE ReadChunks(_, _)
ReadChunks(files, i) ==
    IF \A f \in files : f.index < i THEN <<>>
    ELSE LET f == CHOOSE g \in files : g.index = i
         IN  (IF f.content.kind = "lines"
              THEN [k \in 1..Len(f.content.lines) |-> json_loads(f.content.lines[k])]
              ELSE f.content.value)
             \o ReadChunks(files, i + 1)

\* json.load(f) on a file: the document; on a file of lines the one object
\* of a single line, JSONDecodeError on no line or more than one.
json_load(content) ==
    IF content.kind = "document" THEN Loaded(content.value)
    ELSE IF Len(content.lines) = 1 THEN Loaded([object |-> json_loads(content.lines[1])])
    ELSE LoadFailed("JSONDecodeError")

\* load_dataset on the files of a directory: the chunks if there are any,
\* else the first data.* file, else [].  Under .gz the test '.json' in name
\* comes first and holds for data.jsonl.gz as well.
load_dataset(files) ==
    LET chunk_files == {f \in files : f.stem = "data_chunk"}
        data_files == {f \in files : f.stem = "data"}
    IN  IF chunk_files # {} THEN Loaded(ReadChunks(chunk_files, 0))
        ELSE IF data_files # {}
        THEN LET data_file == CHOOSE f \in data_files : TRUE
             IN  IF data_file.gz THEN json_load(data_file.content)
                 ELSE IF data_file.ext = "json" THEN json_load(data_file.content)
                 ELSE Loaded([k \in 1..Len(data_file.content.lines) |->
                                 json_loads(data_file.content.lines[k])])
        ELSE Loaded(<<>>)

SerializerInit ==
    /\ fn = NoCall
    /\ args \in [data : UNION {[1..n -> DataRecords] : n \in 0..MaxData},
                 format : SerializerFormats, compress : BOOLEAN,
                 chunk_size : ChunkSizes]
    /\ ret = [files |-> {}, loaded |-> Loaded(<<>>)]
    /\ accuracy_stats = EmptyStats
    /\ config = DefaultConfig

Call_save_dataset ==
    /\ fn = NoCall
    /\ fn' = "save_dataset"
    /\ ret' = [ret EXCEPT !.files = save_dataset(args)]
    /\ UNCHANGED <<args, accuracy_stats, config>>

Call_load_dataset ==
    /\ fn = "save_dataset"
    /\ fn' = "load_dataset"
    /\ ret' = [ret EXCEPT !.loaded = load_dataset(ret.files)]
    /\ UNCHANGED <<args, accuracy_stats, config>>

SerializerNext == Call_save_dataset \/ Call_load_dataset

SerializerSpec == SerializerInit /\ [][SerializerNext]_vars

\* C28: save and load round-trip: for every list of records, every format
\* (json, jsonl, pickle), either compression setting and sizes below and
\* above chunk_size, load_dataset on the directory written by save_dataset
\* returns the same records in the same order.
C28_SaveLoadRoundTrip ==
    fn = "load_dataset" => ret.loaded = Loaded(args.data)

---------------------------------------------------------------------------
(* GRPO groups.  A list of tasks is cut into groups of group_size by       *)
(* LargeScaleDatasetGenerator._create_grpo_groups, which drops None        *)
(* entries and always shuffles, and by                                     *)
(* NihongoGRPODataset.create_grpo_groups, which shuffles on request.  A    *)
(* task occurrence is its position in the list given.                      *)

\* Largest number of entries of the task list and largest group size.
MaxEntries == 5
MaxGroupSize == 3

\* The entries of a task list: a task or None.
TaskEntries == {None, Some("task")}

\* random.shuffle: any order of the positions given.
Shuffles(positions) ==
    {order \in [1..Len(positions) -> Range(positions)] :
        \A i, j \in 1..Len(order) : order[i] = order[j] => i = j}

\* [task for task in tasks if task is not None], as positions.
RECURSIVE valid_tasks(_, _)
valid_tasks(tasks, i) ==
    IF i > Len(tasks) THEN <<>>
    ELSE (IF IsNone(tasks[i]) THEN <<>> ELSE <<i>>) \o valid_tasks(tasks, i + 1)

\* The loop of the groups with the incomplete last group kept.
RECURSIVE grpo_groups_with_rest(_, _, _)
grpo_groups_with_rest(shuffled_tasks, i, group_size) ==
    IF i >= Len(shuffled_tasks) THEN <<>>
    ELSE <<Slice(shuffled_tasks, i + 1, Min2(i + group_size, Len(shuffled_tasks)))>>
         \o grpo_groups_with_rest(shuffled_tasks, i + group_size, group_size)

\* for i in range(0, len(shuffled_tasks), group_size): the slice
\* [i:i + group_size] is appended when it has group_size elements.
RECURSIVE grpo_groups(_, _, _)
grpo_groups(shuffled_tasks, i, group_size) ==
    IF i >= Len(shuffled_tasks) THEN <<>>
    ELSE LET group == Slice(shuffled_tasks, i + 1,
                            Min2(i + group_size, Len(shuffled_tasks)))
         IN  (IF Len(group) = group_size THEN <<group>> ELSE <<>>)
             \o grpo_groups(shuffled_tasks, i + group_size, group_size)

GroupInit ==
    /\ fn = NoCall
    /\ args \in [tasks : UNION {[1..n -> TaskEntries] : n \in 0..MaxEntries},
                 group_size : 1..MaxGroupSize, shuffle : BOOLEAN]
    /\ ret = [shuffled_tasks |-> <<>>, groups |-> <<>>]
    /\ accuracy_stats = EmptyStats
    /\ config = DefaultConfig

\* LargeScaleDatasetGenerator._create_grpo_groups(tasks, group_size)
Call_create_grpo_groups_of_generator ==
    /\ fn = NoCall
    /\ fn' = "_create_grpo_groups"
    /\ \E shuffled_tasks \in Shuffles(valid_tasks(args.tasks, 1)) :
           ret' = [shuffled_tasks |-> shuffled_tasks,
                   groups |-> grpo_groups(shuffled_tasks, 0, args.group_size)]
    /\ UNCHANGED <<args, accuracy_stats, config>>

\* NihongoGRPODataset.create_grpo_groups(group_size, shuffle) on self.tasks,
\* a list of tasks without None.
Call_create_grpo_groups_of_dataset ==
    /\ fn = NoCall
    /\ \A i \in 1..Len(args.tasks) : ~IsNone(args.tasks[i])
    /\ fn' = "create_grpo_groups"
    /\ \E tasks \in IF args.shuffle
                    THEN Shuffles([i \in 1..Len(args.tasks) |-> i])
                    ELSE {[i \in 1..Len(args.tasks) |-> i]} :
           ret' = [shuffled_tasks |-> tasks,
                   groups |-> grpo_groups(tasks, 0, args.group_size)]
    /\ UNCHANGED <<args, accuracy_stats, config>>

GroupNext ==
    \/ Call_create_grpo_groups_of_generator
    \/ Call_create_grpo_groups_of_dataset

GroupSpec == GroupInit /\ [][GroupNext]_vars

\* The positions of args.tasks that hold a task, and their number n.
TaskPositions == {i \in 1..Len(args.tasks) : ~IsNone(args.tasks[i])}
Grouped == {<<k, p>> \in (1..Len(ret.groups)) \X (1..MaxGroupSize) : p <= Len(ret.groups[k])}

\* C29: only complete groups are kept: for n tasks and group size g both
\* implementations return exactly floor(n / g) groups of exactly g tasks
\* each, no task occurrence is in two groups (or twice in one), and fewer
\* than g tasks are left out.
C29_OnlyCompleteGroups ==
    fn \in {"_create_grpo_groups", "create_grpo_groups"} =>
        LET n == Cardinality(TaskPositions)
            g == args.group_size
        IN  /\ Len(ret.groups) = n \div g
            /\ \A k \in 1..Len(ret.groups) : Len(ret.groups[k]) = g
            /\ \A x \in Grouped : ret.groups[x[1]][x[2]] \in TaskPositions
            /\ \A x, y \in Grouped :
                   ret.groups[x[1]][x[2]] = ret.groups[y[1]][y[2]] => x = y
            /\ n - Cardinality(Grouped) < g
            /\ n - Cardinality(Grouped) >= 0

\* The generator made one group of three out of four tasks and a None entry,
\* in another order than given, and left one task out.
C29_Witness ==
    /\ fn = "_create_grpo_groups"
    /\ Len(args.tasks) = MaxEntries
    /\ Cardinality(TaskPositions) = 4
    /\ args.group_size = 3
    /\ Len(ret.groups) = 1
    /\ ret.groups[1][1] > ret.groups[1][2]

---------------------------------------------------------------------------
(* The explanation scores.  Each family's explanation sub-scorer is        *)
(* applied to a reasoning text (and, for keigo, the question): the score   *)
(* it has summed up and the value it returns after min(score, 1.0).        *)

\* The reasoning texts: nothing,
\* a letter,
\* the best particle explanation,
\* the best word-order explanation,
\* the best kanji explanation,
\* the best keigo explanation,
\* the best counter explanation,
\* keywords of several families,
\* 120 letters,
\* 150 letters,
\* 200 letters,
\* 250 letters.
ExplainTexts ==
    {<<>>,
     <<"x">>,
     <<"lq", "ga", "rq", "ha", "u4e3b", "u8a9e", "wo", "u8868", "su", "u52a9", "u8a5e", "de", "touten", "lq", "ha", "rq", "ha", "u4e3b", "u984c", "wo", "u793a", "su", "u52a9", "u8a5e", "de", "su", "u3002", "ko", "no", "u6587", "de", "ha", "u4e3b", "u8a9e", "na", "no", "de", "lq", "ga", "rq", "de", "su">>,
     <<"u6b63", "si", "ii", "u8a9e", "u9806", "ha", "touten", "u6642", "u9593", "touten", "u5834", "u6240", "touten", "u4e3b", "u8a9e", "lq", "u79c1", "ha", "rq", "touten", "u76ee", "u7684", "u8a9e", "touten", "u8ff0", "u8a9e", "no", "u9806", "u756a", "de", "su", "u3002", "u52a9", "u8a5e", "ni", "u6ce8", "u610f", "si", "ma", "su">>,
     <<"ko", "no", "u6f22", "u5b57", "ha", "u5c0f", "u5b66", "1", "u5e74", "u751f", "de", "u7fd2", "uu", "u6f22", "u5b57", "de", "su", "u3002", "u97f3", "u8aad", "mi", "ha", "lq", "NI", "TI", "rq", "touten", "u8a13", "u8aad", "mi", "ha", "lq", "hi", "rq", "de", "touten", "s", "u", "n", "to", "ii", "uu", "u610f", "u5473", "de", "su">>,
     <<"lq", "u884c", "ku", "rq", "no", "u8b19", "u8b72", "u8a9e", "ha", "lq", "u53c2", "ru", "rq", "de", "su", "u3002", "u81ea", "u5206", "no", "u52d5", "u4f5c", "wo", "he", "ri", "ku", "da", "xtu", "te", "u8a00", "uu", "no", "de", "touten", "u76f8", "u624b", "he", "no", "u656c", "u610f", "wo", "u8868", "si", "ma", "su">>,
     <<"u925b", "u7b46", "ha", "u7d30", "u9577", "ii", "u7269", "na", "no", "de", "touten", "u52a9", "u6570", "u8a5e", "lq", "u672c", "rq", "wo", "u4f7f", "ii", "ma", "su", "u3002", "u9577", "ii", "u7269", "wo", "u6570", "ee", "ru", "u5358", "u4f4d", "de", "su", "u3002", "da", "ka", "ra", "3", "u672c", "de", "su">>,
     <<"u52a9", "u8a5e", "to", "u4e3b", "u8a9e", "to", "u4e3b", "u984c", "touten", "u8a9e", "u9806", "to", "u8ff0", "u8a9e", "touten", "u656c", "u8a9e", "to", "u5c0a", "u656c", "u8a9e", "touten", "u97f3", "u8aad", "mi", "to", "u8a13", "u8aad", "mi", "no", "u610f", "u5473">>,
     <<"x", "x", "x", "x", "x", "x", "x", "x", "x", "x", "x", "x", "x", "x", "x", "x", "x", "x", "x", "x", "x", "x", "x", "x", "x", "x", "x", "x", "x", "x", "x", "x", "x", "x", "x", "x", "x", "x", "x", "x", "x", "x", "x", "x", "x", "x", "x", "x", "x", "x", "x", "x", "x", "x", "x", "x", "x", "x", "x", "x", "x", "x", "x", "x", "x", "x", "x", "x", "x", "x", "x", "x", "x", "x", "x", "x", "x", "x", "x", "x", "x", "x", "x", "x", "x", "x", "x", "x", "x", "x", "x", "x", "x", "x", "x", "x", "x", "x", "x", "x", "x", "x", "x", "x", "x", "x", "x", "x", "x", "x", "x", "x", "x", "x", "x", "x", "x", "x", "x", "x">>,
     <<"x", "x", "x", "x", "x", "x", "x", "x", "x", "x", "x", "x", "x", "x", "x", "x", "x", "x", "x", "x", "x", "x", "x", "x", "x", "x", "x", "x", "x", "x", "x", "x", "x", "x", "x", "x", "x", "x", "x", "x", "x", "x", "x", "x", "x", "x", "x", "x", "x", "x", "x", "x", "x", "x", "x", "x", "x", "x", "x", "x", "x", "x", "x", "x", "x", "x", "x", "x", "x", "x", "x", "x", "x", "x", "x", "x", "x", "x", "x", "x", "x", "x", "x", "x", "x", "x", "x", "x", "x", "x", "x", "x", "x", "x", "x", "x", "x", "x", "x", "x", "x", "x", "x", "x", "x", "x", "x", "x", "x", "x", "x", "x", "x", "x", "x", "x", "x", "x", "x", "x", "x", "x", "x", "x", "x", "x", "x", "x", "x", "x", "x", "x", "x", "x", "x", "x", "x", "x", "x", "x", "x", "x", "x", "x", "x", "x", "x", "x", "x", "x">>,
     <<"x", "x", "x", "x", "x", "x", "x", "x", "x", "x", "x", "x", "x", "x", "x", "x", "x", "x", "x", "x", "x", "x", "x", "x", "x", "x", "x", "x", "x", "x", "x", "x", "x", "x", "x", "x", "x", "x", "x", "x", "x", "x", "x", "x", "x", "x", "x", "x", "x", "x", "x", "x", "x", "x", "x", "x", "x", "x", "x", "x", "x", "x", "x", "x", "x", "x", "x", "x", "x", "x", "x", "x", "x", "x", "x", "x", "x", "x", "x", "x", "x", "x", "x", "x", "x", "x", "x", "x", "x", "x", "x", "x", "x", "x", "x", "x", "x", "x", "x", "x", "x", "x", "x", "x", "x", "x", "x", "x", "x", "x", "x", "x", "x", "x", "x", "x", "x", "x", "x", "x", "x", "x", "x", "x", "x", "x", "x", "x", "x", "x", "x", "x", "x", "x", "x", "x", "x", "x", "x", "x", "x", "x", "x", "x", "x", "x", "x", "x", "x", "x", "x", "x", "x", "x", "x", "x", "x", "x", "x", "x", "x", "x", "x", "x", "x", "x", "x", "x", "x", "x", "x", "x", "x", "x", "x", "x", "x", "x", "x", "x", "x", "x", "x", "x", "x", "x", "x", "x", "x", "x", "x", "x", "x", "x", "x", "x", "x", "x", "x", "x">>,
     <<"x", "x", "x", "x", "x", "x", "x", "x", "x", "x", "x", "x", "x", "x", "x", "x", "x", "x", "x", "x", "x", "x", "x", "x", "x", "x", "x", "x", "x", "x", "x", "x", "x", "x", "x", "x", "x", "x", "x", "x", "x", "x", "x", "x", "x", "x", "x", "x", "x", "x", "x", "x", "x", "x", "x", "x", "x", "x", "x", "x", "x", "x", "x", "x", "x", "x", "x", "x", "x", "x", "x", "x", "x", "x", "x", "x", "x", "x", "x", "x", "x", "x", "x", "x", "x", "x", "x", "x", "x", "x", "x", "x", "x", "x", "x", "x", "x", "x", "x", "x", "x", "x", "x", "x", "x", "x", "x", "x", "x", "x", "x", "x", "x", "x", "x", "x", "x", "x", "x", "x", "x", "x", "x", "x", "x", "x", "x", "x", "x", "x", "x", "x", "x", "x", "x", "x", "x", "x", "x", "x", "x", "x", "x", "x", "x", "x", "x", "x", "x", "x", "x", "x", "x", "x", "x", "x", "x", "x", "x", "x", "x", "x", "x", "x", "x", "x", "x", "x", "x", "x", "x", "x", "x", "x", "x", "x", "x", "x", "x", "x", "x", "x", "x", "x", "x", "x", "x", "x", "x", "x", "x", "x", "x", "x", "x", "x", "x", "x", "x", "x", "x", "x", "x", "x", "x", "x", "x", "x", "x", "x", "x", "x", "x", "x", "x", "x", "x", "x", "x", "x", "x", "x", "x", "x", "x", "x", "x", "x", "x", "x", "x", "x", "x", "x", "x", "x", "x", "x", "x", "x", "x", "x", "x", "x", "x", "x", "x", "x", "x", "x">>}

\* The questions: iku into kenjogo, iku into sonkeigo, a particle question.
ExplainQuestions ==
    {<<"lq", "u884c", "ku", "rq", "wo", "u8b19", "u8b72", "u8a9e", "ni">>,
     <<"lq", "u884c", "ku", "rq", "wo", "u5c0a", "u656c", "u8a9e", "ni">>,
     <<"u79c1", "_", "u5b66", "u751f", "de", "su">>}

ExplainInit ==
    /\ fn = NoCall
    /\ args \in [reasoning : ExplainTexts, question : ExplainQuestions]
    /\ ret = [score |-> 0, value |-> 0]
    /\ accuracy_stats = EmptyStats
    /\ config = DefaultConfig

Explained(name, score, value) ==
    /\ fn = NoCall
    /\ fn' = name
    /\ ret' = [score |-> score, value |-> value]
    /\ UNCHANGED <<args, accuracy_stats, config>>

Explain_particle_grammar ==
    Explained("particle_evaluate_grammar_explanation",
              particle_evaluate_grammar_explanation_score(args.reasoning),
              particle_evaluate_grammar_explanation(args.reasoning))

Explain_word_order_grammar ==
    Explained("word_order_evaluate_grammar_explanation",
              word_order_evaluate_grammar_explanation_score(args.reasoning),
              word_order_evaluate_grammar_explanation(args.reasoning))

Explain_kanji ==
    Explained("_evaluate_kanji_explanation",
              _evaluate_kanji_explanation_score(args.reasoning),
              _evaluate_kanji_explanation(args.reasoning))

Explain_counter ==
    Explained("_evaluate_counter_explanation",
              _evaluate_counter_explanation_score(args.reasoning),
              _evaluate_counter_explanation(args.reasoning))

Explain_keigo ==
    Explained("_evaluate_keigo_explanation",
              _evaluate_keigo_explanation_score(args.reasoning, args.question),
              _evaluate_keigo_explanation(args.reasoning, args.question))

ExplainNext ==
    \/ Explain_particle_grammar
    \/ Explain_word_order_grammar
    \/ Explain_kanji
    \/ Explain_counter
    \/ Explain_keigo

ExplainSpec == ExplainInit /\ [][ExplainNext]_vars

\* C30: in every explanation sub-scorer the unclamped sum of the
\* contributions lies between -0.2 and 1.0 for every reasoning text, so the
\* final min(score, 1.0) never changes the value.
C30_ExplanationSumInRange ==
    fn # NoCall =>
        /\ Tenths(-2) <= ret.score
        /\ ret.score <= Tenths(10)
        /\ ret.value = ret.score

\* The particle sub-scorer summed up exactly 1.0 for a reasoning of more
\* than thirty characters.
C30_Witness ==
    /\ fn = "particle_evaluate_grammar_explanation"
    /\ PyLen(args.reasoning) > 30
    /\ ret.score = Tenths(10)
    /\ ret.value = Tenths(10)

===========================================================================
